---- MODULE Spec2Model ----
(***************************************************************************)
(* DeepAudit diff engine (src-tauri/src/diff): the comparison of two files *)
(* or two directory trees, the line diff, the binary comparison, the       *)
(* rename pass and the summary.                                            *)
(*                                                                         *)
(* A text is a sequence of characters, a character a one-symbol string.    *)
(* A similarity (an f32 in the code) is kept as the exact fraction         *)
(* <<numerator, denominator>>: the code divides two small counts, and two  *)
(* different fractions with denominators this small never round to the     *)
(* same f32, so comparing the fractions is comparing the floats.           *)
(***************************************************************************)
EXTENDS Integers, Sequences, FiniteSets, TLC

(***************************************************************************)
(* Bounds of the model.                                                    *)
(***************************************************************************)
\* longest file content, in characters, of the pair comparisons
MaxLen == 3
\* longest file content, in characters, of the similarity inputs
MaxSimLen == 3

(***************************************************************************)
(* Characters and texts.                                                   *)
(***************************************************************************)
NL == "\n"
CR == "\r"
NUL == "NUL"
\* a byte that is not valid UTF-8 wherever it stands (0xFF)
BadByte == "0xFF"
\* the prefix "[二进制文件]" of the synthetic lines of binary files, one symbol
BinaryMarker == "[binary-file]"
\* the prefix "[文本文件]" written for the text side of a mixed pair
TextMarker == "[text-file]"
\* the prefix "[文件读取错误] " of a diagnostic line
ErrorMarker == "[read-error] "

\* char::is_whitespace, over the characters of the model
WhiteSpace == {" ", NL, CR, "\t"}

TextsOver(chars, n) == UNION {[1..k -> chars] : k \in 0..n}

Drop(s, n) == SubSeq(s, n + 1, Len(s))
Take(s, n) == SubSeq(s, 1, n)

\* the index of the first occurrence of c in s, 0 when there is none
IndexOf(s, c) ==
    IF \E i \in 1..Len(s) : s[i] = c
    THEN CHOOSE i \in 1..Len(s) : s[i] = c /\ \A j \in 1..(i - 1) : s[j] # c
    ELSE 0

\* str::lines strips one trailing "\r" from a line
StripCR(line) ==
    IF Len(line) > 0 /\ line[Len(line)] = CR THEN Take(line, Len(line) - 1) ELSE line

\* str::lines: the text split at "\n"; a final empty piece yields no line
RECURSIVE Lines(_)
Lines(text) ==
    IF text = <<>> THEN <<>>
    ELSE LET i == IndexOf(text, NL)
         IN  IF i = 0 THEN <<StripCR(text)>>
             ELSE <<StripCR(Take(text, i - 1))>> \o Lines(Drop(text, i))

\* str::trim_start and str::trim
RECURSIVE TrimStart(_)
TrimStart(s) ==
    IF Len(s) > 0 /\ s[1] \in WhiteSpace THEN TrimStart(Tail(s)) ELSE s

RECURSIVE TrimEnd(_)
TrimEnd(s) ==
    IF Len(s) > 0 /\ s[Len(s)] \in WhiteSpace THEN TrimEnd(Take(s, Len(s) - 1)) ELSE s

Trim(s) == TrimEnd(TrimStart(s))

\* [String]::join("\n")
RECURSIVE JoinLines(_)
JoinLines(lines) ==
    IF lines = <<>> THEN <<>>
    ELSE IF Len(lines) = 1 THEN lines[1]
    ELSE lines[1] \o <<NL>> \o JoinLines(Tail(lines))

\* content.lines().map(trim or identity).collect()
ContentLines(content, ignore_whitespace) ==
    LET ls == Lines(content)
    IN  [i \in 1..Len(ls) |-> IF ignore_whitespace THEN Trim(ls[i]) ELSE ls[i]]

(***************************************************************************)
(* The data model (diff/types.rs).  modified_time and is_placeholder take  *)
(* no part in any decision of the engine and are left out.                 *)
(***************************************************************************)
\* Option::None of a line number; the line numbers of the code start at 1
None == 0

\* A path: a root directory ("" for a path relative to a compared root), a file
\* stem and an extension ("" for none)
NoRoot == ""
Path(root, stem, ext) == [root |-> root, stem |-> stem, ext |-> ext]
RelativePath(stem, ext) == Path(NoRoot, stem, ext)
\* dir.join(relative_path)
JoinPath(root, rel) == Path(root, rel.stem, rel.ext)

\* no path at all
NoPath == Path("", "", "")

\* FileStatus: a tag, and the old path that only Renamed carries
Status(tag) == [tag |-> tag, old_path |-> NoPath]
Added == Status("Added")
Deleted == Status("Deleted")
Modified == Status("Modified")
Unchanged == Status("Unchanged")
Renamed(old_path) == [tag |-> "Renamed", old_path |-> old_path]

DiffLine(left, right, diff_type, content) ==
    [left_line_number |-> left, right_line_number |-> right,
     diff_type |-> diff_type, content |-> content]

FileStats(size, line_count) == [size |-> size, line_count |-> line_count]

FileDiff(path, status, lines, left_stats, right_stats) ==
    [path |-> path, status |-> status, lines |-> lines,
     left_stats |-> left_stats, right_stats |-> right_stats]

Chunk(kind, text) == [kind |-> kind, text |-> text]

(***************************************************************************)
(* dissimilar::diff, the character-level diff the filesystem line diff     *)
(* calls.  The crate is not part of the repository; what is modelled is    *)
(* what it guarantees.  Equal texts give one Equal chunk (none when        *)
(* empty): the common prefix is trimmed first and is the whole text.       *)
(* Otherwise the result is one of the edit scripts in merged form: chunks  *)
(* are not empty, the Equal and Delete chunks concatenate to the first     *)
(* text and the Equal and Insert chunks to the second, every run of edits  *)
(* between two equalities is at most one Delete followed by at most one    *)
(* Insert, and the two share no first and no last character (a common      *)
(* prefix or suffix is factored into the neighbouring equality).           *)
(***************************************************************************)
EditRuns(t1, t2) ==
    {<<i, j>> \in (0..Len(t1)) \X (0..Len(t2)) :
        /\ i + j >= 1
        /\ (i > 0 /\ j > 0) => (t1[1] # t2[1] /\ t1[i] # t2[j])}

RunChunks(t1, t2, i, j) ==
    (IF i > 0 THEN <<Chunk("Delete", Take(t1, i))>> ELSE <<>>)
    \o (IF j > 0 THEN <<Chunk("Insert", Take(t2, j))>> ELSE <<>>)

RECURSIVE EditScripts(_, _, _)
EditScripts(t1, t2, prev) ==
    IF t1 = <<>> /\ t2 = <<>> THEN {<<>>}
    ELSE
      (IF prev = "Equal" THEN {}
       ELSE UNION {
              {<<Chunk("Equal", Take(t1, k))>> \o rest :
                  rest \in EditScripts(Drop(t1, k), Drop(t2, k), "Equal")} :
              k \in {n \in 1..Len(t1) : n <= Len(t2) /\ Take(t1, n) = Take(t2, n)}})
      \cup
      (IF prev = "Edit" THEN {}
       ELSE UNION {
              {RunChunks(t1, t2, r[1], r[2]) \o rest :
                  rest \in EditScripts(Drop(t1, r[1]), Drop(t2, r[2]), "Edit")} :
              r \in EditRuns(t1, t2)})

DissimilarDiff(text1, text2) ==
    IF text1 = text2
    THEN (IF text1 = <<>> THEN {<<>>} ELSE {<<Chunk("Equal", text1)>>})
    ELSE EditScripts(text1, text2, "Start")

(***************************************************************************)
(* DiffEngine::compute_line_diff: the chunks of the character diff of the  *)
(* two joined texts, each cut into lines, with the two line counters.      *)
(***************************************************************************)
\* ChunkLines with the line numbers counted anew in each chunk
ChunkLines_NumbersPerChunk(chunk, left, right) ==
    LET ls == Lines(chunk.text)
    IN  [n \in 1..Len(ls) |->
           CASE chunk.kind = "Equal" -> DiffLine(n, n, "Equal", ls[n])
             [] chunk.kind = "Delete" -> DiffLine(n, None, "Delete", ls[n])
             [] chunk.kind = "Insert" -> DiffLine(None, n, "Insert", ls[n])]

\* the DiffLines of one chunk, the counters standing at left and right
ChunkLines(chunk, left, right) ==
    LET ls == Lines(chunk.text)
    IN  [n \in 1..Len(ls) |->
           CASE chunk.kind = "Equal" ->
                  DiffLine(left + n - 1, right + n - 1, "Equal", ls[n])
             [] chunk.kind = "Delete" ->
                  DiffLine(left + n - 1, None, "Delete", ls[n])
             [] chunk.kind = "Insert" ->
                  DiffLine(None, right + n - 1, "Insert", ls[n])]

RECURSIVE ChunksToLines(_, _, _)
ChunksToLines(chunks, left_line_num, right_line_num) ==
    IF chunks = <<>> THEN <<>>
    ELSE LET c == chunks[1]
             n == Len(Lines(c.text))
         IN  ChunkLines(c, left_line_num, right_line_num)
             \o ChunksToLines(Tail(chunks),
                    IF c.kind \in {"Equal", "Delete"} THEN left_line_num + n
                                                       ELSE left_line_num,
                    IF c.kind \in {"Equal", "Insert"} THEN right_line_num + n
                                                       ELSE right_line_num)

\* the results compute_line_diff can return for the two line sequences
compute_line_diff(lines_a, lines_b) ==
    {ChunksToLines(chunks, 1, 1) :
        chunks \in DissimilarDiff(JoinLines(lines_a), JoinLines(lines_b))}

(***************************************************************************)
(* similar::TextDiff::diff_lines with Algorithm::Myers, the line diff the  *)
(* repository backend calls.  The crate is not part of the repository.     *)
(* The texts are cut into lines that keep their terminator, and the result *)
(* is a shortest edit script over those lines: one change per line, as     *)
(* many Equal changes as a longest common subsequence has.                 *)
(***************************************************************************)
\* the lines of a text, each with its line terminator
RECURSIVE SplitLinesInclusive(_)
SplitLinesInclusive(text) ==
    IF text = <<>> THEN <<>>
    ELSE LET i == IndexOf(text, NL)
         IN  IF i = 0 THEN <<text>>
             ELSE <<Take(text, i)>> \o SplitLinesInclusive(Drop(text, i))

RECURSIVE LcsLength(_, _)
LcsLength(a, b) ==
    IF a = <<>> \/ b = <<>> THEN 0
    ELSE IF a[1] = b[1] THEN 1 + LcsLength(Tail(a), Tail(b))
    ELSE LET x == LcsLength(Tail(a), b)
             y == LcsLength(a, Tail(b))
         IN  IF x >= y THEN x ELSE y

Change(tag, value) == [tag |-> tag, value |-> value]

\* the edit scripts over two token sequences with exactly n Equal changes
RECURSIVE TokenScripts(_, _, _)
TokenScripts(a, b, n) ==
    IF a = <<>> /\ b = <<>> THEN (IF n = 0 THEN {<<>>} ELSE {})
    ELSE
      (IF a # <<>> /\ b # <<>> /\ a[1] = b[1] /\ n > 0
       THEN {<<Change("Equal", a[1])>> \o rest :
                rest \in TokenScripts(Tail(a), Tail(b), n - 1)}
       ELSE {})
      \cup
      (IF a # <<>>
       THEN {<<Change("Delete", a[1])>> \o rest : rest \in TokenScripts(Tail(a), b, n)}
       ELSE {})
      \cup
      (IF b # <<>>
       THEN {<<Change("Insert", b[1])>> \o rest : rest \in TokenScripts(a, Tail(b), n)}
       ELSE {})

SimilarDiffLines(text1, text2) ==
    LET a == SplitLinesInclusive(text1)
        b == SplitLinesInclusive(text2)
    IN  TokenScripts(a, b, LcsLength(a, b))

\* str::trim_end_matches('\n')
RECURSIVE TrimEndNewlines(_)
TrimEndNewlines(s) ==
    IF Len(s) > 0 /\ s[Len(s)] = NL THEN TrimEndNewlines(Take(s, Len(s) - 1)) ELSE s

(***************************************************************************)
(* GitIntegration::compute_git_line_diff: one DiffLine per change.         *)
(***************************************************************************)
RECURSIVE ChangesToLines(_, _, _)
ChangesToLines(changes, left_line_num, right_line_num) ==
    IF changes = <<>> THEN <<>>
    ELSE LET c == changes[1]
             content == TrimEndNewlines(c.value)
         IN  CASE c.tag = "Equal" ->
                    <<DiffLine(left_line_num, right_line_num, "Equal", content)>>
                    \o ChangesToLines(Tail(changes), left_line_num + 1, right_line_num + 1)
               [] c.tag = "Delete" ->
                    <<DiffLine(left_line_num, None, "Delete", content)>>
                    \o ChangesToLines(Tail(changes), left_line_num + 1, right_line_num)
               [] c.tag = "Insert" ->
                    <<DiffLine(None, right_line_num, "Insert", content)>>
                    \o ChangesToLines(Tail(changes), left_line_num, right_line_num + 1)

\* the results compute_git_line_diff can return for the two line sequences
compute_git_line_diff(lines_a, lines_b) ==
    {ChangesToLines(changes, 1, 1) :
        changes \in SimilarDiffLines(JoinLines(lines_a), JoinLines(lines_b))}

(***************************************************************************)
(* The filesystem.  A path is a root directory ("" for a path relative to  *)
(* a compared root), a file stem and an extension ("" for none).  A file   *)
(* is its bytes, whether it can be opened, and whether it is oversize: an  *)
(* oversize file stands for a text of more than the 10 MiB ceiling that    *)
(* starts with the bytes given, two oversize files with the same bytes     *)
(* being identical.                                                        *)
(***************************************************************************)
File(bytes, oversize, readable) ==
    [bytes |-> bytes, oversize |-> oversize, readable |-> readable]
PlainFile(bytes) == File(bytes, FALSE, TRUE)
\* a file of n zero bytes
ZeroBytes(n) == PlainFile([i \in 1..n |-> NUL])

\* the ceiling of read_text_file, engine.rs:598
TextCeiling == 10 * 1024 * 1024
\* the bytes is_binary_file reads, engine.rs:564
BUFFER_SIZE == 1024

\* fs::metadata(path).len()
MetadataLen(file) ==
    IF file.oversize THEN TextCeiling + 1 + Len(file.bytes) ELSE Len(file.bytes)

\* Result<T>: Ok carries the value, Err the message
NoDiff == FileDiff(NoPath, Status("None"), <<>>, FileStats(0, 0), FileStats(0, 0))
Ok(diff) == [ok |-> TRUE, diff |-> diff, error |-> ""]
Err(error) == [ok |-> FALSE, diff |-> NoDiff, error |-> error]

\* engine.rs:548-556
binary_extensions ==
    {"jpg", "jpeg", "png", "gif", "bmp", "ico", "svg",
     "pdf", "doc", "docx", "xls", "xlsx", "ppt", "pptx",
     "zip", "rar", "7z", "tar", "gz", "bz2",
     "exe", "dll", "so", "dylib",
     "jar", "war", "ear", "class",
     "mp3", "mp4", "avi", "mov", "wmv",
     "ttf", "otf", "woff", "woff2"}

\* str::to_lowercase, over the extensions of the model
ToLowercase(ext) ==
    CASE ext = "PNG" -> "png"
      [] ext = "TXT" -> "txt"
      [] OTHER -> ext

\* std::str::from_utf8 succeeds
ValidUtf8(bytes) == \A i \in 1..Len(bytes) : bytes[i] # BadByte

\* is_binary_file looking at the whole content, not at the first BUFFER_SIZE
\* bytes of it
is_binary_file_WholeFile(path, file) ==
    IF path.ext # "" /\ ToLowercase(path.ext) \in binary_extensions THEN "true"
    ELSE IF ~file.readable THEN "error"
    ELSE LET bytes_read == Len(file.bytes)
             buffer == file.bytes
         IN  IF bytes_read = 0 THEN "false"
             ELSE IF \E i \in 1..bytes_read : buffer[i] = NUL THEN "true"
             ELSE IF ValidUtf8(buffer) THEN "false"
             ELSE "true"

\* is_binary_file without the early return for an empty file: a file of no
\* bytes has no NUL and is valid UTF-8, and is reported binary all the same
is_binary_file_EmptyIsBinary(path, file) ==
    IF path.ext # "" /\ ToLowercase(path.ext) \in binary_extensions THEN "true"
    ELSE IF ~file.readable THEN "error"
    ELSE LET bytes_read == IF Len(file.bytes) < BUFFER_SIZE THEN Len(file.bytes)
                           ELSE BUFFER_SIZE
             buffer == Take(file.bytes, bytes_read)
         IN  IF bytes_read = 0 THEN "true"
             ELSE IF \E i \in 1..bytes_read : buffer[i] = NUL THEN "true"
             ELSE IF ValidUtf8(buffer) THEN "false"
             ELSE "true"

\* DiffEngine::is_binary_file: "true", "false", or "error" when the file cannot be opened
is_binary_file(path, file) ==
    IF path.ext # "" /\ ToLowercase(path.ext) \in binary_extensions THEN "true"
    ELSE IF ~file.readable THEN "error"
    ELSE LET bytes_read == IF Len(file.bytes) < BUFFER_SIZE THEN Len(file.bytes)
                           ELSE BUFFER_SIZE
             buffer == Take(file.bytes, bytes_read)
         IN  IF bytes_read = 0 THEN "false"
             ELSE IF \E i \in 1..bytes_read : buffer[i] = NUL THEN "true"
             ELSE IF ValidUtf8(buffer) THEN "false"
             ELSE "true"

\* encoding_rs::WINDOWS_1252.decode: every byte is a character
DecodeWindows1252(bytes) ==
    [i \in 1..Len(bytes) |-> IF bytes[i] = BadByte THEN "y-diaeresis" ELSE bytes[i]]

\* DiffEngine::read_text_file: [ok, text]
TextOk(text) == [ok |-> TRUE, text |-> text, error |-> ""]
TextErr(error) == [ok |-> FALSE, text |-> <<>>, error |-> error]
read_text_file(file) ==
    IF MetadataLen(file) > TextCeiling THEN TextErr("file too large")
    ELSE IF ~file.readable THEN TextErr("cannot read file")
    ELSE IF ValidUtf8(file.bytes) THEN TextOk(file.bytes)
    ELSE IF DecodeWindows1252(file.bytes) # <<>> THEN TextOk(DecodeWindows1252(file.bytes))
    ELSE TextErr("cannot decode file")

\* DiffEngine::calculate_file_hash: the SipHash of the content.  The model keeps
\* the content itself: no two contents this short share a hash.
HashOk(file) == [ok |-> TRUE, oversize |-> file.oversize, bytes |-> file.bytes]
HashErr == [ok |-> FALSE, oversize |-> FALSE, bytes |-> <<>>]
calculate_file_hash(file) ==
    IF file.readable THEN HashOk(file) ELSE HashErr

SizeText(n) == ToString(n)

\* compare_binary_files without the comparison of the two hashes: two binary
\* files always count as different
compare_binary_files_NoHash(path_a, file_a, path_b, file_b, is_binary_a, is_binary_b) ==
    LET len_a == MetadataLen(file_a)
        len_b == MetadataLen(file_b)
    IN  Ok(FileDiff(path_b, Modified,
                    <<DiffLine(1, 1, "Delete",
                          <<IF is_binary_a THEN BinaryMarker ELSE TextMarker, " ", SizeText(len_a)>>),
                      DiffLine(2, 2, "Insert",
                          <<IF is_binary_b THEN BinaryMarker ELSE TextMarker, " ", SizeText(len_b)>>)>>,
                    FileStats(len_a, 1), FileStats(len_b, 1)))

\* compare_binary_files comparing the two hashes whichever side is binary: a
\* binary and a text file of the same content count as unchanged
compare_binary_files_HashAlways(path_a, file_a, path_b, file_b, is_binary_a, is_binary_b) ==
    LET len_a == MetadataLen(file_a)
        len_b == MetadataLen(file_b)
        hash_a == calculate_file_hash(file_a)
        hash_b == calculate_file_hash(file_b)
        same == hash_a = hash_b
        lines ==
            IF same THEN <<>>
            ELSE <<DiffLine(1, 1, "Delete",
                       <<IF is_binary_a THEN BinaryMarker ELSE TextMarker, " ", SizeText(len_a)>>),
                   DiffLine(2, 2, "Insert",
                       <<IF is_binary_b THEN BinaryMarker ELSE TextMarker, " ", SizeText(len_b)>>)>>
        line_count == IF lines = <<>> THEN 0 ELSE 1
    IN  IF ~hash_a.ok \/ ~hash_b.ok THEN Err("cannot read file")
        ELSE Ok(FileDiff(path_b, IF same THEN Unchanged ELSE Modified, lines,
                         FileStats(len_a, line_count), FileStats(len_b, line_count)))

\* DiffEngine::compare_binary_files
compare_binary_files(path_a, file_a, path_b, file_b, is_binary_a, is_binary_b) ==
    LET len_a == MetadataLen(file_a)
        len_b == MetadataLen(file_b)
        hash_a == calculate_file_hash(file_a)
        hash_b == calculate_file_hash(file_b)
        both == is_binary_a /\ is_binary_b
        same == both /\ hash_a = hash_b
        lines ==
            IF both
            THEN IF same THEN <<>>
                 ELSE <<DiffLine(1, 1, "Delete", <<BinaryMarker, " size: ", SizeText(len_a), " bytes">>),
                        DiffLine(2, 2, "Insert", <<BinaryMarker, " size: ", SizeText(len_b), " bytes">>)>>
            ELSE <<DiffLine(1, 1, "Delete",
                       <<IF is_binary_a THEN BinaryMarker ELSE TextMarker, " ", SizeText(len_a)>>),
                   DiffLine(2, 2, "Insert",
                       <<IF is_binary_b THEN BinaryMarker ELSE TextMarker, " ", SizeText(len_b)>>)>>
        line_count == IF lines = <<>> THEN 0 ELSE 1
    IN  IF both /\ (~hash_a.ok \/ ~hash_b.ok) THEN Err("cannot read file")
        ELSE Ok(FileDiff(path_b, IF same THEN Unchanged ELSE Modified, lines,
                         FileStats(len_a, line_count), FileStats(len_b, line_count)))

\* DiffEngine::create_error_file_diff
create_error_file_diff(path_a, file_a, path_b, file_b, error) ==
    Ok(FileDiff(path_b, Modified,
                <<DiffLine(1, 1, "Equal", <<ErrorMarker, error>>)>>,
                FileStats(MetadataLen(file_a), 1), FileStats(MetadataLen(file_b), 1)))

AllEqual(lines) == \A i \in 1..Len(lines) : lines[i].diff_type = "Equal"

\* TextFileDiff with the status taken from the list being empty, not from the
\* types of its lines
TextFileDiff_UnchangedIfNoLines(path_b, file_a, file_b, lines_a, lines_b, diff_lines) ==
    FileDiff(path_b,
             IF diff_lines = <<>> THEN Unchanged ELSE Modified,
             diff_lines,
             FileStats(MetadataLen(file_a), Len(lines_a)),
             FileStats(MetadataLen(file_b), Len(lines_b)))

\* engine.rs:132-142: the FileDiff of a text pair, given its diff lines
TextFileDiff(path_b, file_a, file_b, lines_a, lines_b, diff_lines) ==
    FileDiff(path_b,
             IF AllEqual(diff_lines) THEN Unchanged ELSE Modified,
             diff_lines,
             FileStats(MetadataLen(file_a), Len(lines_a)),
             FileStats(MetadataLen(file_b), Len(lines_b)))

\* DiffEngine::compare_files: the results it can return
compare_files(path_a, file_a, path_b, file_b, ignore_whitespace) ==
    LET is_binary_a == is_binary_file(path_a, file_a)
        is_binary_b == is_binary_file(path_b, file_b)
        content_a == read_text_file(file_a)
        content_b == read_text_file(file_b)
        lines_a == ContentLines(content_a.text, ignore_whitespace)
        lines_b == ContentLines(content_b.text, ignore_whitespace)
    IN  IF is_binary_a = "error" \/ is_binary_b = "error" THEN {Err("cannot open file")}
        ELSE IF is_binary_a = "true" \/ is_binary_b = "true"
        THEN {compare_binary_files(path_a, file_a, path_b, file_b,
                                   is_binary_a = "true", is_binary_b = "true")}
        ELSE IF ~content_a.ok
        THEN {create_error_file_diff(path_a, file_a, path_b, file_b, content_a.error)}
        ELSE IF ~content_b.ok
        THEN {create_error_file_diff(path_a, file_a, path_b, file_b, content_b.error)}
        ELSE {Ok(TextFileDiff(path_b, file_a, file_b, lines_a, lines_b, diff_lines)) :
                 diff_lines \in compute_line_diff(lines_a, lines_b)}

\* DiffEngine::create_deleted_file_diff
create_deleted_file_diff(relative_path, file) ==
    LET is_binary == is_binary_file(relative_path, file)
        content == read_text_file(file)
        lines == Lines(content.text)
    IN  IF is_binary = "error" THEN Err("cannot open file")
        ELSE IF is_binary = "true"
        THEN Ok(FileDiff(relative_path, Deleted,
                    <<DiffLine(1, None, "Delete",
                               <<BinaryMarker, " size: ", SizeText(MetadataLen(file)), " bytes">>)>>,
                    FileStats(MetadataLen(file), 1), FileStats(0, 0)))
        ELSE IF ~content.ok THEN Err(content.error)
        ELSE Ok(FileDiff(relative_path, Deleted,
                    [i \in 1..Len(lines) |-> DiffLine(i, None, "Delete", lines[i])],
                    FileStats(MetadataLen(file), Len(lines)), FileStats(0, 0)))

\* DiffEngine::create_added_file_diff
create_added_file_diff(relative_path, file) ==
    LET is_binary == is_binary_file(relative_path, file)
        content == read_text_file(file)
        lines == Lines(content.text)
    IN  IF is_binary = "error" THEN Err("cannot open file")
        ELSE IF is_binary = "true"
        THEN Ok(FileDiff(relative_path, Added,
                    <<DiffLine(None, 1, "Insert",
                               <<BinaryMarker, " size: ", SizeText(MetadataLen(file)), " bytes">>)>>,
                    FileStats(0, 0), FileStats(MetadataLen(file), 1)))
        ELSE IF ~content.ok THEN Err(content.error)
        ELSE Ok(FileDiff(relative_path, Added,
                    [i \in 1..Len(lines) |-> DiffLine(None, i, "Insert", lines[i])],
                    FileStats(0, 0), FileStats(MetadataLen(file), Len(lines))))

(***************************************************************************)
(* The rename pass.                                                        *)
(***************************************************************************)
StartsWithBinaryMarker(content) == Len(content) > 0 /\ content[1] = BinaryMarker

\* TrimmedLineSet without the trim
TrimmedLineSet_Untrimmed(lines) ==
    {lines[i].content : i \in {j \in 1..Len(lines) : ~StartsWithBinaryMarker(lines[j].content)}}

\* the HashSet of the trimmed contents of the lines that are no binary marker
TrimmedLineSet(lines) ==
    {Trim(lines[i].content) : i \in {j \in 1..Len(lines) : ~StartsWithBinaryMarker(lines[j].content)}}

\* calculate_similarity dividing by the size of the first set, not of the union
calculate_similarity_OverFirst(lines_a, lines_b) ==
    IF lines_a = <<>> \/ lines_b = <<>> THEN <<0, 1>>
    ELSE IF \/ \E i \in 1..Len(lines_a) : StartsWithBinaryMarker(lines_a[i].content)
            \/ \E i \in 1..Len(lines_b) : StartsWithBinaryMarker(lines_b[i].content)
    THEN <<0, 1>>
    ELSE <<Cardinality(TrimmedLineSet(lines_a) \cap TrimmedLineSet(lines_b)),
           Cardinality(TrimmedLineSet(lines_a))>>

\* calculate_similarity dividing by the sum of the two sizes, not by the size of
\* the union
calculate_similarity_OverSum(lines_a, lines_b) ==
    IF lines_a = <<>> \/ lines_b = <<>> THEN <<0, 1>>
    ELSE IF \/ \E i \in 1..Len(lines_a) : StartsWithBinaryMarker(lines_a[i].content)
            \/ \E i \in 1..Len(lines_b) : StartsWithBinaryMarker(lines_b[i].content)
    THEN <<0, 1>>
    ELSE <<Cardinality(TrimmedLineSet(lines_a) \cap TrimmedLineSet(lines_b)),
           Cardinality(TrimmedLineSet(lines_a)) + Cardinality(TrimmedLineSet(lines_b))>>

\* DiffEngine::calculate_similarity, as the fraction <<numerator, denominator>>
calculate_similarity(lines_a, lines_b) ==
    IF lines_a = <<>> \/ lines_b = <<>> THEN <<0, 1>>
    ELSE IF \/ \E i \in 1..Len(lines_a) : StartsWithBinaryMarker(lines_a[i].content)
            \/ \E i \in 1..Len(lines_b) : StartsWithBinaryMarker(lines_b[i].content)
    THEN <<0, 1>>
    ELSE LET set_a == TrimmedLineSet(lines_a)
             set_b == TrimmedLineSet(lines_b)
             intersection == Cardinality(set_a \cap set_b)
             union == Cardinality(set_a \cup set_b)
         IN  IF union = 0 THEN <<1, 1>> ELSE <<intersection, union>>

\* x >= y and x = y on fractions
FracGeq(x, y) == x[1] * y[2] >= y[1] * x[2]
FracEq(x, y) == x[1] * y[2] = y[1] * x[2]

\* FirstMatch choosing the candidate of the highest similarity, the first of
\* them when several share it
FirstMatch_Best(added, deleted_files, threshold) ==
    LET sim(k) == calculate_similarity(deleted_files[k].lines, added.lines)
        hits == {k \in 1..Len(deleted_files) : FracGeq(sim(k), threshold)}
        best == {k \in hits : \A m \in hits : FracGeq(sim(k), sim(m))}
    IN  IF hits = {} THEN NoPath
        ELSE deleted_files[CHOOSE k \in best : \A m \in best : k <= m].path

\* engine.rs:466-474: the old path matched to the Added entry, NoPath when none
FirstMatch(added, deleted_files, threshold) ==
    LET hits == {k \in 1..Len(deleted_files) :
                    FracGeq(calculate_similarity(deleted_files[k].lines, added.lines), threshold)}
    IN  IF hits = {} THEN NoPath
        ELSE deleted_files[CHOOSE k \in hits : \A m \in hits : k <= m].path

RECURSIVE SelectSeq2(_, _)
SelectSeq2(s, keep) ==
    IF s = <<>> THEN <<>>
    ELSE (IF keep[1] THEN <<s[1]>> ELSE <<>>)
         \o SelectSeq2(Tail(s), Tail(keep))

\* RenameMappings with the Modified entries among the candidates
RenameMappings_AlsoModified(diffs, threshold) ==
    LET deleted_files == SelectSeq2(diffs, [i \in 1..Len(diffs) |-> diffs[i].status = Deleted])
    IN  [i \in 1..Len(diffs) |->
            IF diffs[i].status \in {Added, Modified} /\ diffs[i].lines # <<>>
            THEN FirstMatch(diffs[i], deleted_files, threshold)
            ELSE NoPath]

\* engine.rs:454-474: rename_mappings, as the old path found for each index
RenameMappings(diffs, threshold) ==
    LET deleted_files == SelectSeq2(diffs, [i \in 1..Len(diffs) |-> diffs[i].status = Deleted])
    IN  [i \in 1..Len(diffs) |->
            IF diffs[i].status = Added /\ diffs[i].lines # <<>>
            THEN FirstMatch(diffs[i], deleted_files, threshold)
            ELSE NoPath]

\* detect_renames without the removal of the matched Deleted entries
detect_renames_KeepDeleted(diffs, threshold) ==
    LET rename_mappings == RenameMappings(diffs, threshold)
    IN  [i \in 1..Len(diffs) |->
            IF rename_mappings[i] # NoPath
            THEN [diffs[i] EXCEPT !.status = Renamed(rename_mappings[i])]
            ELSE diffs[i]]

\* detect_renames with the lines of the matched Deleted entry merged into the
\* renamed entry, ahead of its own
detect_renames_MergeLines(diffs, threshold) ==
    LET rename_mappings == RenameMappings(diffs, threshold)
        paths_to_remove == {rename_mappings[i] : i \in 1..Len(diffs)} \ {NoPath}
        old_lines(i) == diffs[CHOOSE k \in 1..Len(diffs) :
                                 diffs[k].status = Deleted
                                 /\ diffs[k].path = rename_mappings[i]].lines
        marked == [i \in 1..Len(diffs) |->
                      IF rename_mappings[i] # NoPath
                      THEN [diffs[i] EXCEPT !.status = Renamed(rename_mappings[i]),
                                            !.lines = old_lines(i) \o diffs[i].lines]
                      ELSE diffs[i]]
    IN  SelectSeq2(marked,
            [i \in 1..Len(marked) |->
                ~(marked[i].status = Deleted /\ marked[i].path \in paths_to_remove)])

\* DiffEngine::detect_renames: the list after the pass
detect_renames(diffs, threshold) ==
    LET rename_mappings == RenameMappings(diffs, threshold)
        paths_to_remove == {rename_mappings[i] : i \in 1..Len(diffs)} \ {NoPath}
        marked == [i \in 1..Len(diffs) |->
                      IF rename_mappings[i] # NoPath
                      THEN [diffs[i] EXCEPT !.status = Renamed(rename_mappings[i])]
                      ELSE diffs[i]]
    IN  SelectSeq2(marked,
            [i \in 1..Len(marked) |->
                ~(marked[i].status = Deleted /\ marked[i].path \in paths_to_remove)])

(***************************************************************************)
(* DiffEngine::calculate_summary                                           *)
(***************************************************************************)
RECURSIVE SumSeq(_)
SumSeq(s) == IF s = <<>> THEN 0 ELSE s[1] + SumSeq(Tail(s))

CountStatus(file_diffs, tag) ==
    Cardinality({i \in 1..Len(file_diffs) : file_diffs[i].status.tag = tag})

CountLines(file_diffs, diff_type) ==
    SumSeq([i \in 1..Len(file_diffs) |->
              Cardinality({j \in 1..Len(file_diffs[i].lines) :
                              file_diffs[i].lines[j].diff_type = diff_type})])

\* calculate_summary with the Unchanged entries counted as modified files
calculate_summary_UnchangedAsModified(file_diffs) ==
    [files_added |-> CountStatus(file_diffs, "Added"),
     files_deleted |-> CountStatus(file_diffs, "Deleted"),
     files_modified |-> CountStatus(file_diffs, "Modified") + CountStatus(file_diffs, "Unchanged"),
     files_renamed |-> CountStatus(file_diffs, "Renamed"),
     lines_added |-> CountLines(file_diffs, "Insert"),
     lines_deleted |-> CountLines(file_diffs, "Delete")]

\* DiffEngine::calculate_summary
calculate_summary(file_diffs) ==
    [files_added |-> CountStatus(file_diffs, "Added"),
     files_deleted |-> CountStatus(file_diffs, "Deleted"),
     files_modified |-> CountStatus(file_diffs, "Modified"),
     files_renamed |-> CountStatus(file_diffs, "Renamed"),
     lines_added |-> CountLines(file_diffs, "Insert"),
     lines_deleted |-> CountLines(file_diffs, "Delete")]

(***************************************************************************)
(* The repository backend (diff/git_integration.rs).  A line of git's      *)
(* --name-status output is the sequence of its tab-separated fields, a     *)
(* reply of git the exit status and the lines of its standard output.      *)
(***************************************************************************)
TAB == "\t"

RECURSIVE JoinTab(_)
JoinTab(fields) ==
    IF Len(fields) = 1 THEN fields[1]
    ELSE fields[1] \o TAB \o JoinTab(Tail(fields))

\* str::split_once('\t'): is there a tab, the text before it, the text after it
HasTab(line) == Len(line) >= 2
BeforeTab(line) == line[1]
AfterTab(line) == Tail(line)

GitReply(success, lines) == [success |-> success, lines |-> lines]

\* a path of the repository, as the engine reports it
GitPath(name) == RelativePath(name, "")

\* Option::None of a path name
NoName == ""

\* GitIntegration::get_renamed_from_path: the old path, NoName for None
RECURSIVE get_renamed_from_path(_, _)
get_renamed_from_path(lines, new_path) ==
    IF lines = <<>> THEN NoName
    ELSE IF /\ HasTab(lines[1])
            /\ BeforeTab(lines[1]) = "R"
            /\ JoinTab(AfterTab(lines[1])) # new_path
    THEN JoinTab(AfterTab(lines[1]))
    ELSE get_renamed_from_path(Tail(lines), new_path)

\* git_integration.rs:236-258, the loop over the lines of the status reply
RECURSIVE StatusOfLines(_, _, _)
StatusOfLines(lines, file_path, follow) ==
    IF lines = <<>> THEN Unchanged
    ELSE LET line == lines[1]
             status == BeforeTab(line)
             old_path == get_renamed_from_path(follow.lines, file_path)
         IN  IF HasTab(line) /\ JoinTab(AfterTab(line)) = file_path
             THEN CASE status = "A" -> Added
                    [] status = "D" -> Deleted
                    [] status = "M" -> Modified
                    [] status = "R" /\ old_path # NoName -> Renamed(GitPath(old_path))
                    [] status = "C" -> Added
                    [] OTHER -> StatusOfLines(Tail(lines), file_path, follow)
             ELSE StatusOfLines(Tail(lines), file_path, follow)

\* GitIntegration::get_file_status, given git's reply to the status query of the
\* path and its reply to the follow-history query
get_file_status(reply, file_path, follow) ==
    IF ~reply.success THEN Unchanged
    ELSE StatusOfLines(reply.lines, file_path, follow)

\* git_integration.rs:88-113: the path one line of the changed-file query adds
\* to the list (NoName for a line without a tab, which adds nothing)
ChangedFileOfLine(line) ==
    IF ~HasTab(line) THEN NoName
    ELSE LET status == BeforeTab(line)
             file_path == AfterTab(line)
         IN  IF status \in {"R", "C"} /\ HasTab(file_path)
             THEN JoinTab(AfterTab(file_path))
             ELSE JoinTab(file_path)

\* GitIntegration::get_changed_files, given the lines git printed
RECURSIVE get_changed_files(_)
get_changed_files(lines) ==
    IF lines = <<>> THEN <<>>
    ELSE (IF ChangedFileOfLine(lines[1]) = NoName THEN <<>>
          ELSE <<ChangedFileOfLine(lines[1])>>)
         \o get_changed_files(Tail(lines))

\* str::len and str::lines().count() of a content (get_git_file_stats)
GitFileStats(content) == FileStats(Len(content), Len(Lines(content)))

\* GitIntegration::compare_git_file: the FileDiffs it can return for the contents
\* of the path at the two refs ("" for a path missing at a ref)
compare_git_file(file_path, left_content, right_content, reply, follow, ignore_whitespace) ==
    LET left_lines == ContentLines(left_content, ignore_whitespace)
        right_lines == ContentLines(right_content, ignore_whitespace)
    IN  {Ok(FileDiff(GitPath(file_path),
                     get_file_status(reply, file_path, follow),
                     diff_lines,
                     GitFileStats(left_content), GitFileStats(right_content))) :
            diff_lines \in compute_git_line_diff(left_lines, right_lines)}

(***************************************************************************)
(* The state of one call of compare.                                       *)
(***************************************************************************)
VARIABLES
    request,     \* the ComparisonRequest being served
    pc,          \* where compare stands
    all_paths,   \* the relative paths (changed files) the parallel map runs over
    results,     \* the results of the per-file tasks, in the order of all_paths
    diffs,       \* the FileDiffs collected from the tasks, before the rename pass
    file_diffs,  \* the file_diffs of the ComparisonResult
    summary,     \* the summary of the ComparisonResult
    similarity   \* the scores calculate_similarity returned

vars == <<request, pc, all_paths, results, diffs, file_diffs, summary, similarity>>

NoRequest == [kind |-> "none"]
NoSummary == calculate_summary(<<>>)
NoSimilarity == <<>>

ComparisonConfig(ignore_whitespace, renames, threshold) ==
    [ignore_whitespace |-> ignore_whitespace,
     detect_renames |-> renames,
     rename_similarity_threshold |-> threshold]

\* ComparisonConfig::default, lib.rs:408-409
DefaultThreshold == <<4, 5>>

Init ==
    /\ request = NoRequest
    /\ pc = "idle"
    /\ all_paths = <<>>
    /\ results = <<>>
    /\ diffs = <<>>
    /\ file_diffs = <<>>
    /\ summary = NoSummary
    /\ similarity = NoSimilarity

(***************************************************************************)
(* Comparisons of one pair: compare on two files, and compare_git_file on  *)
(* the two contents of one path.                                           *)
(***************************************************************************)
TextChars == {"a", "b", " ", NL}
ByteChars == {"a", NUL, BadByte}
\* longest content of the files that are not plain text
MaxBinLen == 1

PairTexts == TextsOver(TextChars, MaxLen)

\* the files a pair is drawn from, each with the extension of its name
PairFiles ==
    {[ext |-> "txt", file |-> PlainFile(t)] : t \in PairTexts}
    \cup {[ext |-> e, file |-> PlainFile(b)] :
             e \in {"txt", "png"}, b \in TextsOver(ByteChars, MaxBinLen)}
    \cup {[ext |-> "txt", file |-> File(<<"a">>, TRUE, TRUE)],
          [ext |-> "txt", file |-> File(<<"a">>, FALSE, FALSE)]}

\* compare of two files: file_system_compare calls compare_files, and compare
\* adds the summary
CompareFilePair ==
    /\ pc = "idle"
    /\ \E a \in PairFiles, b \in PairFiles, ignore_whitespace \in BOOLEAN :
         LET path_a == Path("left", "f", a.ext)
             path_b == Path("right", "g", b.ext)
         IN  \E res \in compare_files(path_a, a.file, path_b, b.file, ignore_whitespace) :
               /\ request' = [kind |-> "files", path_a |-> path_a, file_a |-> a.file,
                              path_b |-> path_b, file_b |-> b.file,
                              config |-> ComparisonConfig(ignore_whitespace, TRUE,
                                                          DefaultThreshold)]
               /\ pc' = IF res.ok THEN "done" ELSE "failed"
               /\ file_diffs' = IF res.ok THEN <<res.diff>> ELSE <<>>
               /\ summary' = IF res.ok THEN calculate_summary(<<res.diff>>) ELSE NoSummary
    /\ UNCHANGED <<all_paths, results, diffs, similarity>>

\* what git answers to the status query of one path whose contents at the two
\* refs are given: the letter of the change, or nothing, or a failure
Missing == [exists |-> FALSE, content |-> <<>>]
Present(content) == [exists |-> TRUE, content |-> content]
\* "git show ref:path" of a missing path fails, and the content is taken as empty
ContentOf(side) == IF side.exists THEN side.content ELSE <<>>
GitSides == {Missing} \cup {Present(t) : t \in PairTexts}

NameStatusReplies(file_path, left, right) ==
    {GitReply(FALSE, <<>>)}
    \cup
    (CASE ~left.exists /\ ~right.exists -> {GitReply(TRUE, <<>>)}
       [] ~left.exists /\ right.exists -> {GitReply(TRUE, <<<<"A", file_path>>>>)}
       [] left.exists /\ ~right.exists -> {GitReply(TRUE, <<<<"D", file_path>>>>)}
       [] OTHER ->
            IF left = right
            THEN {GitReply(TRUE, <<>>), GitReply(TRUE, <<<<"M", file_path>>>>)}
            ELSE {GitReply(TRUE, <<<<"M", file_path>>>>),
                  GitReply(TRUE, <<<<"T", file_path>>>>)})

\* compare_git_file on one path of a repository
CompareGitFilePair ==
    /\ pc = "idle"
    /\ \E left \in GitSides, right \in GitSides, ignore_whitespace \in BOOLEAN :
         \E reply \in NameStatusReplies("f", left, right) :
           \E res \in compare_git_file("f", ContentOf(left), ContentOf(right), reply,
                                       GitReply(TRUE, <<>>), ignore_whitespace) :
               /\ request' = [kind |-> "git-file", file_path |-> "f",
                              left |-> left, right |-> right, reply |-> reply,
                              config |-> ComparisonConfig(ignore_whitespace, TRUE,
                                                          DefaultThreshold)]
               /\ pc' = "done"
               /\ file_diffs' = <<res.diff>>
               /\ summary' = calculate_summary(<<res.diff>>)
    /\ UNCHANGED <<all_paths, results, diffs, similarity>>

NextPair == CompareFilePair \/ CompareGitFilePair

SpecPair == Init /\ [][NextPair]_vars

(***************************************************************************)
(* The similarity of two files, as the rename pass computes it for a       *)
(* Deleted and an Added entry (engine.rs:468).                             *)
(***************************************************************************)
\* the characters of the files: a line of a text can itself start with the words
\* of the binary marker
SimChars == {"a", "b", " ", NL, BinaryMarker}

SimFiles ==
    {PlainFile(text) : text \in TextsOver(SimChars, MaxSimLen)}
        \cup {PlainFile(<<NUL>>), PlainFile(<<NUL, "a">>)}

\* the entries of a file only in the left tree and of a file only in the right
\* tree, and calculate_similarity on their lines, in both orders
CalculateSimilarity ==
    /\ pc = "idle"
    /\ \E file_a \in SimFiles, file_b \in SimFiles :
         LET deleted == create_deleted_file_diff(RelativePath("old", "txt"), file_a).diff
             added == create_added_file_diff(RelativePath("new", "txt"), file_b).diff
         IN  /\ request' = [kind |-> "similarity", file_a |-> file_a, file_b |-> file_b]
             /\ diffs' = <<deleted, added>>
             /\ similarity' = <<calculate_similarity(deleted.lines, added.lines),
                                calculate_similarity(added.lines, deleted.lines)>>
    /\ pc' = "done"
    /\ UNCHANGED <<all_paths, results, file_diffs, summary>>

NextSim == CalculateSimilarity

SpecSim == Init /\ [][NextSim]_vars

(***************************************************************************)
(* compare on two directories: file_system_compare, compare_directories    *)
(* with its parallel map over the relative paths, the rename pass, and the *)
(* summary.                                                                *)
(***************************************************************************)
\* most files in the two trees together
MaxFiles == 3

\* the relative paths a tree can hold
DirNames == {RelativePath("a", "txt"), RelativePath("b", "txt"), RelativePath("c", "txt")}

\* the files of the trees: empty, one line, that line twice, two different
\* lines, a binary file of ten zero bytes, a file over the text ceiling and a
\* file that cannot be opened
DirFiles ==
    {PlainFile(<<>>), PlainFile(<<"a">>), PlainFile(<<"a", NL, "a">>),
     PlainFile(<<"a", NL, "b">>), ZeroBytes(10),
     File(<<"a">>, TRUE, TRUE), File(<<"a">>, FALSE, FALSE)}

\* rename_similarity_threshold: 0 and the default
Thresholds == {<<0, 1>>, DefaultThreshold}

Trees == UNION {[names -> DirFiles] : names \in SUBSET DirNames}

\* the orders in which a HashSet can yield its elements
Orders(set) ==
    {order \in [1..Cardinality(set) -> set] :
        \A i, j \in 1..Cardinality(set) : order[i] = order[j] => i = j}

\* the result of a task that has not run yet (no result of the code)
Pending == [ok |-> FALSE, diff |-> NoDiff, error |-> "(pending)"]

\* file_system_compare on two directories, and compare_directories up to the
\* start of the parallel map (engine.rs:146-175)
CompareDirectories ==
    /\ pc = "idle"
    /\ \E files_a_set \in Trees, files_b_set \in Trees,
          renames \in BOOLEAN, threshold \in Thresholds :
         /\ Cardinality(DOMAIN files_a_set) + Cardinality(DOMAIN files_b_set) <= MaxFiles
         /\ request' = [kind |-> "dirs", source_a |-> "A", source_b |-> "B",
                        files_a_set |-> files_a_set, files_b_set |-> files_b_set,
                        config |-> ComparisonConfig(FALSE, renames, threshold)]
         /\ all_paths' \in Orders(DOMAIN files_a_set \cup DOMAIN files_b_set)
         /\ results' = [i \in 1..Len(all_paths') |-> Pending]
    /\ pc' = "tasks"
    /\ UNCHANGED <<diffs, file_diffs, summary, similarity>>

\* TaskResults with a file only in the right tree handled as a deleted file
TaskResults_RightOnlyDeleted(relative_path) ==
    LET in_a == relative_path \in DOMAIN request.files_a_set
        in_b == relative_path \in DOMAIN request.files_b_set
    IN  IF in_a /\ in_b
        THEN compare_files(JoinPath(request.source_a, relative_path),
                           request.files_a_set[relative_path],
                           JoinPath(request.source_b, relative_path),
                           request.files_b_set[relative_path],
                           request.config.ignore_whitespace)
        ELSE IF in_a
        THEN {create_deleted_file_diff(relative_path, request.files_a_set[relative_path])}
        ELSE {create_deleted_file_diff(relative_path, request.files_b_set[relative_path])}

\* engine.rs:180-199: what the task of one relative path can return
TaskResults(relative_path) ==
    LET in_a == relative_path \in DOMAIN request.files_a_set
        in_b == relative_path \in DOMAIN request.files_b_set
    IN  IF in_a /\ in_b
        THEN compare_files(JoinPath(request.source_a, relative_path),
                           request.files_a_set[relative_path],
                           JoinPath(request.source_b, relative_path),
                           request.files_b_set[relative_path],
                           request.config.ignore_whitespace)
        ELSE IF in_a
        THEN {create_deleted_file_diff(relative_path, request.files_a_set[relative_path])}
        ELSE {create_added_file_diff(relative_path, request.files_b_set[relative_path])}

\* one task of the parallel map
FileTask(i) ==
    /\ pc = "tasks"
    /\ request.kind = "dirs"
    /\ results[i] = Pending
    /\ \E res \in TaskResults(all_paths[i]) : results' = [results EXCEPT ![i] = res]
    /\ UNCHANGED <<request, pc, all_paths, diffs, file_diffs, summary, similarity>>

\* Join without waiting for the tasks: the results so far are collected
Join_WithoutWaiting ==
    /\ pc = "tasks"
    /\ request.kind = "dirs"
    /\ diffs' = LET kept == SelectSeq2(results, [i \in 1..Len(results) |-> results[i].ok])
                IN  [i \in 1..Len(kept) |-> kept[i].diff]
    /\ pc' = "joined"
    /\ UNCHANGED <<request, all_paths, results, file_diffs, summary, similarity>>

\* engine.rs:202-214: the map has joined; the Ok results are kept, in order
Join ==
    /\ pc = "tasks"
    /\ request.kind = "dirs"
    /\ \A i \in 1..Len(results) : results[i] # Pending
    /\ diffs' = LET kept == SelectSeq2(results, [i \in 1..Len(results) |-> results[i].ok])
                IN  [i \in 1..Len(kept) |-> kept[i].diff]
    /\ pc' = "joined"
    /\ UNCHANGED <<request, all_paths, results, file_diffs, summary, similarity>>

\* engine.rs:221-227: the rename pass, when the configuration asks for it
DetectRenames ==
    /\ pc = "joined"
    /\ file_diffs' = IF request.config.detect_renames
                     THEN detect_renames(diffs, request.config.rename_similarity_threshold)
                     ELSE diffs
    /\ pc' = "renamed"
    /\ UNCHANGED <<request, all_paths, results, diffs, summary, similarity>>

\* engine.rs:35-43: the summary, and the result is returned
Summarize ==
    /\ pc = "renamed"
    /\ summary' = calculate_summary(file_diffs)
    /\ pc' = "done"
    /\ UNCHANGED <<request, all_paths, results, diffs, file_diffs, similarity>>

(***************************************************************************)
(* compare on a repository: git_compare and GitIntegration::compare.  What *)
(* git is asked about is a list of changes between the two refs: a path    *)
(* added, deleted or modified, or renamed from an old path, with the       *)
(* contents at the two refs.                                               *)
(***************************************************************************)
\* most changes between the two refs
MaxChanges == 2

GitChange(letter, old, path, left, right) ==
    [letter |-> letter, old |-> old, path |-> path, left |-> left, right |-> right]

GitChanges ==
    {GitChange("A", NoName, "x.rs", Missing, Present(<<"a">>)),
     GitChange("D", NoName, "y.rs", Present(<<"a">>), Missing),
     GitChange("M", NoName, "z.rs", Present(<<"a">>), Present(<<"a", NL, "b">>)),
     GitChange("R", "y.rs", "x.rs", Present(<<"a">>), Present(<<"a">>))}

\* the lists of changes: each path is changed once, and git lists them by path
ChangeLists ==
    {changes \in UNION {[1..n -> GitChanges] : n \in 0..MaxChanges} :
        \A i, j \in 1..Len(changes) :
            i # j => {changes[i].path, changes[i].old} \cap
                     ({changes[j].path, changes[j].old} \ {NoName}) = {}}

\* the line "git diff --name-status" prints for a change: a rename carries its
\* similarity score after the letter, then the old and the new path
NameStatusLine(change) ==
    IF change.letter = "R" THEN <<"R100", change.old, change.path>>
    ELSE <<change.letter, change.path>>

\* the content "git show ref:path" finds at the left and at the right ref
LeftAt(changes, file_path) ==
    IF \E i \in 1..Len(changes) :
          \/ changes[i].letter \in {"D", "M"} /\ changes[i].path = file_path
          \/ changes[i].letter = "R" /\ changes[i].old = file_path
    THEN (CHOOSE c \in {changes[i] : i \in 1..Len(changes)} :
             \/ c.letter \in {"D", "M"} /\ c.path = file_path
             \/ c.letter = "R" /\ c.old = file_path).left
    ELSE Missing

RightAt(changes, file_path) ==
    IF \E i \in 1..Len(changes) :
          changes[i].letter \in {"A", "M", "R"} /\ changes[i].path = file_path
    THEN (CHOOSE c \in {changes[i] : i \in 1..Len(changes)} :
             c.letter \in {"A", "M", "R"} /\ c.path = file_path).right
    ELSE Missing

\* the reply to "git diff --name-status left right -- path": the diff is limited
\* to the path before renames are looked for, so the new path of a rename shows
\* as added and the old path as deleted
PathStatusLines(changes, file_path) ==
    LET left == LeftAt(changes, file_path)
        right == RightAt(changes, file_path)
    IN  CASE ~left.exists /\ ~right.exists -> <<>>
          [] ~left.exists /\ right.exists -> <<<<"A", file_path>>>>
          [] left.exists /\ ~right.exists -> <<<<"D", file_path>>>>
          [] OTHER -> <<<<"M", file_path>>>>

\* the reply to "git log --follow --name-status" of a path
FollowLines(changes, file_path) ==
    LET hits == SelectSeq2(changes, [i \in 1..Len(changes) |->
                    changes[i].letter = "R" /\ changes[i].path = file_path])
    IN  [i \in 1..Len(hits) |-> NameStatusLine(hits[i])]

\* GitCompare without the check of the exit status of the changed-file query:
\* what git printed is parsed whether the query succeeded or not
GitCompare_IgnoreExit ==
    /\ pc = "idle"
    /\ \E changes \in ChangeLists, has_params \in BOOLEAN, is_repository \in BOOLEAN,
          diff_succeeds \in BOOLEAN, time_parses \in BOOLEAN, renames \in BOOLEAN :
         LET changed_files == get_changed_files([i \in 1..Len(changes) |->
                                                    NameStatusLine(changes[i])])
             fatal == ~has_params \/ ~is_repository
         IN  /\ request' = [kind |-> "git", has_params |-> has_params,
                            is_repository |-> is_repository,
                            diff_succeeds |-> diff_succeeds,
                            time_parses |-> time_parses, changes |-> changes,
                            config |-> ComparisonConfig(FALSE, renames, DefaultThreshold)]
             /\ all_paths' = IF fatal THEN <<>>
                             ELSE [i \in 1..Len(changed_files) |-> GitPath(changed_files[i])]
             /\ results' = IF fatal THEN <<>>
                           ELSE [i \in 1..Len(changed_files) |-> Pending]
             /\ pc' = IF fatal THEN "failed" ELSE "tasks"
    /\ UNCHANGED <<diffs, file_diffs, summary, similarity>>

\* git_compare and GitIntegration::compare up to the start of the parallel map
\* (engine.rs:534-541, git_integration.rs:16-46); the allow-list file_paths is empty
GitCompare ==
    /\ pc = "idle"
    /\ \E changes \in ChangeLists, has_params \in BOOLEAN, is_repository \in BOOLEAN,
          diff_succeeds \in BOOLEAN, time_parses \in BOOLEAN, renames \in BOOLEAN :
         LET changed_files == get_changed_files([i \in 1..Len(changes) |->
                                                    NameStatusLine(changes[i])])
             fatal == ~has_params \/ ~is_repository \/ ~diff_succeeds
         IN  /\ request' = [kind |-> "git", has_params |-> has_params,
                            is_repository |-> is_repository,
                            diff_succeeds |-> diff_succeeds,
                            time_parses |-> time_parses, changes |-> changes,
                            config |-> ComparisonConfig(FALSE, renames, DefaultThreshold)]
             /\ all_paths' = IF fatal THEN <<>>
                             ELSE [i \in 1..Len(changed_files) |-> GitPath(changed_files[i])]
             /\ results' = IF fatal THEN <<>>
                           ELSE [i \in 1..Len(changed_files) |-> Pending]
             /\ pc' = IF fatal THEN "failed" ELSE "tasks"
    /\ UNCHANGED <<diffs, file_diffs, summary, similarity>>

\* one task of the parallel map of GitIntegration::compare: compare_git_file.
\* It fails when a git process cannot be started (Command::output), and in
\* get_commit_time when git does not print a number for a ref
GitFileTask(i) ==
    /\ pc = "tasks"
    /\ request.kind = "git"
    /\ results[i] = Pending
    /\ LET file_path == all_paths[i].stem
       IN  \E res \in compare_git_file(file_path,
                          ContentOf(LeftAt(request.changes, file_path)),
                          ContentOf(RightAt(request.changes, file_path)),
                          GitReply(TRUE, PathStatusLines(request.changes, file_path)),
                          GitReply(TRUE, FollowLines(request.changes, file_path)),
                          request.config.ignore_whitespace) :
             \E spawned \in BOOLEAN :
                results' = [results EXCEPT ![i] =
                               IF ~spawned THEN Err("Failed to get file content at commit")
                               ELSE IF request.time_parses THEN res
                               ELSE Err("Invalid timestamp format")]
    /\ UNCHANGED <<request, pc, all_paths, diffs, file_diffs, summary, similarity>>

\* git_integration.rs:50-55 and engine.rs:29-30: the results are collected into
\* one Result, an error of any task failing the comparison; no rename pass
GitJoin ==
    /\ pc = "tasks"
    /\ request.kind = "git"
    /\ \A i \in 1..Len(results) : results[i] # Pending
    /\ IF \A i \in 1..Len(results) : results[i].ok
       THEN /\ diffs' = [i \in 1..Len(results) |-> results[i].diff]
            /\ file_diffs' = diffs'
            /\ pc' = "renamed"
       ELSE /\ pc' = "failed"
            /\ UNCHANGED <<diffs, file_diffs>>
    /\ UNCHANGED <<request, all_paths, results, summary, similarity>>

(***************************************************************************)
(* file_system_compare on two sources that are not two files and not two   *)
(* directories.                                                            *)
(***************************************************************************)
\* what a source path is: a regular file, a directory, or neither
SourceKinds == {"file", "dir", "none"}

\* file_system_compare with && read as ||: one file, or one directory, is enough
file_system_compare_Either(kind_a, kind_b) ==
    IF kind_a = "file" \/ kind_b = "file" THEN "compare_files"
    ELSE IF kind_a = "dir" \/ kind_b = "dir" THEN "compare_directories"
    ELSE "error"

\* engine.rs:51-64: the branch file_system_compare takes
file_system_compare(kind_a, kind_b) ==
    IF kind_a = "file" /\ kind_b = "file" THEN "compare_files"
    ELSE IF kind_a = "dir" /\ kind_b = "dir" THEN "compare_directories"
    ELSE "error"

\* compare on two sources of different or of no kind
CompareOtherSources ==
    /\ pc = "idle"
    /\ \E kind_a \in SourceKinds, kind_b \in SourceKinds,
          renames \in BOOLEAN, threshold \in Thresholds :
         /\ kind_a # kind_b \/ kind_a = "none"
         /\ request' = [kind |-> "sources", kind_a |-> kind_a, kind_b |-> kind_b,
                        config |-> ComparisonConfig(FALSE, renames, threshold)]
         /\ pc' = IF file_system_compare(kind_a, kind_b) = "error" THEN "failed"
                  ELSE "tasks"
    /\ UNCHANGED <<all_paths, results, diffs, file_diffs, summary, similarity>>

Next ==
    \/ CompareDirectories
    \/ CompareOtherSources
    \/ \E i \in 1..Len(results) : FileTask(i)
    \/ Join
    \/ DetectRenames
    \/ GitCompare
    \/ \E i \in 1..Len(results) : GitFileTask(i)
    \/ GitJoin
    \/ Summarize

Spec == Init /\ [][Next]_vars

(***************************************************************************)
(* The classification of one file: is_binary_file on a path and the file   *)
(* at it (engine.rs:544-584).                                              *)
(***************************************************************************)
\* the extensions of the classified paths: none, text, and denylisted ones in
\* lower and in upper case
ClassifiedExts == {"", "txt", "TXT", "png", "PNG", "jpeg", "so"}

\* the classified files: the short contents over the bytes of the model, and
\* contents whose last byte is the last inside the buffer or the first beyond it
ClassifiedFiles ==
    {File(bytes, FALSE, readable) :
        bytes \in TextsOver(ByteChars, MaxBinLen)
                    \cup {[i \in 1..n |-> "a"] \o <<last>> :
                             n \in {BUFFER_SIZE - 1, BUFFER_SIZE}, last \in ByteChars},
        readable \in BOOLEAN}

\* one call of is_binary_file; its answer is the one result
ClassifyFile ==
    /\ pc = "idle"
    /\ \E ext \in ClassifiedExts, file \in ClassifiedFiles :
         LET path == Path("left", "f", ext)
         IN  /\ request' = [kind |-> "classify", path |-> path, file |-> file]
             /\ results' = <<is_binary_file(path, file)>>
    /\ pc' = "done"
    /\ UNCHANGED <<all_paths, diffs, file_diffs, summary, similarity>>

NextBin == ClassifyFile

SpecBin == Init /\ [][NextBin]_vars

(***************************************************************************)
(* Properties of the pair comparisons (SpecPair).                          *)
(***************************************************************************)
CountType(lines, diff_type) ==
    Cardinality({i \in 1..Len(lines) : lines[i].diff_type = diff_type})

\* the contents of the lines of the given types, in output order
ContentsOfTypes(lines, types) ==
    LET kept == SelectSeq2(lines, [i \in 1..Len(lines) |-> lines[i].diff_type \in types])
    IN  [i \in 1..Len(kept) |-> kept[i].content]

\* the request was a pair of files that compare_files took as two texts and read
IsTextPair ==
    /\ request.kind = "files"
    /\ is_binary_file(request.path_a, request.file_a) = "false"
    /\ is_binary_file(request.path_b, request.file_b) = "false"
    /\ read_text_file(request.file_a).ok
    /\ read_text_file(request.file_b).ok

\* the request was a pair that compare_files took as a binary comparison
IsBinaryPair ==
    /\ request.kind = "files"
    /\ \/ is_binary_file(request.path_a, request.file_a) = "true"
       \/ is_binary_file(request.path_b, request.file_b) = "true"

\* the entry in the result is the line diff of two texts
IsLineDiff == pc = "done" /\ (IsTextPair \/ request.kind = "git-file")

\* the two line sequences handed to the line diff
LeftLines ==
    IF request.kind = "files"
    THEN ContentLines(read_text_file(request.file_a).text, request.config.ignore_whitespace)
    ELSE ContentLines(ContentOf(request.left), request.config.ignore_whitespace)
RightLines ==
    IF request.kind = "files"
    THEN ContentLines(read_text_file(request.file_b).text, request.config.ignore_whitespace)
    ELSE ContentLines(ContentOf(request.right), request.config.ignore_whitespace)

\* C1: for every text pair the Equal and Delete lines are as many as the left
\* lines, and the Equal and Insert lines as many as the right lines
C1_LineCounts ==
    IsLineDiff =>
        LET lines == file_diffs[1].lines
        IN  /\ CountType(lines, "Equal") + CountType(lines, "Delete") = Len(LeftLines)
            /\ CountType(lines, "Equal") + CountType(lines, "Insert") = Len(RightLines)

\* C2: for every text pair the contents of the Equal and Delete lines, in output
\* order, are the left lines, and those of the Equal and Insert lines the right lines
C2_Reconstruction ==
    IsLineDiff =>
        LET lines == file_diffs[1].lines
        IN  /\ ContentsOfTypes(lines, {"Equal", "Delete"}) = LeftLines
            /\ ContentsOfTypes(lines, {"Equal", "Insert"}) = RightLines

NoInsertOrDelete(lines) ==
    \A i \in 1..Len(lines) : lines[i].diff_type \notin {"Insert", "Delete"}

\* the two files of the request have the same content, byte for byte
IdenticalFiles ==
    /\ pc = "done"
    /\ request.kind = "files"
    /\ request.file_a.bytes = request.file_b.bytes
    /\ request.file_a.oversize = request.file_b.oversize

\* C3 as stated: two files of identical content always give Unchanged and no
\* Insert or Delete line
C3_IdenticalAlways ==
    IdenticalFiles =>
        /\ file_diffs[1].status = Unchanged
        /\ NoInsertOrDelete(file_diffs[1].lines)

\* C3, amended: two files of identical content that are classified alike, both
\* binary or both text and both read, give Unchanged and no Insert or Delete line
C3_IdenticalAlike ==
    (/\ IdenticalFiles
     /\ \/ IsTextPair
        \/ /\ is_binary_file(request.path_a, request.file_a) = "true"
           /\ is_binary_file(request.path_b, request.file_b) = "true")
    =>  /\ file_diffs[1].status = Unchanged
        /\ NoInsertOrDelete(file_diffs[1].lines)

\* two identical texts of two lines were compared
C3_Witness ==
    /\ IdenticalFiles
    /\ IsTextPair
    /\ Len(file_diffs[1].lines) = 2
    /\ file_diffs[1].status = Unchanged

\* C4 as stated: in every FileDiff, status is Unchanged exactly when every line
\* is Equal
C4_UnchangedIffAllEqual ==
    pc = "done" =>
        \A i \in 1..Len(file_diffs) :
            (file_diffs[i].status = Unchanged) <=> AllEqual(file_diffs[i].lines)

\* C4, amended: in every FileDiff that compare_files makes from a text diff or a
\* binary comparison, status is Unchanged exactly when every line is Equal
C4_ComparedUnchangedIffAllEqual ==
    (pc = "done" /\ (IsTextPair \/ IsBinaryPair)) =>
        ((file_diffs[1].status = Unchanged) <=> AllEqual(file_diffs[1].lines))

\* a text pair whose diff has Equal lines and is Modified, for a changed line
C4_Witness ==
    /\ pc = "done"
    /\ IsTextPair
    /\ file_diffs[1].status = Modified
    /\ CountType(file_diffs[1].lines, "Equal") >= 1
    /\ CountType(file_diffs[1].lines, "Insert") >= 1

(***************************************************************************)
(* Properties of the comparison of directories and repositories (Spec).    *)
(***************************************************************************)
\* compare has its list of entries: after the rename pass, or what stood in for it
HasResult == pc \in {"renamed", "done"}

RenamedEntries == {i \in 1..Len(file_diffs) : file_diffs[i].status.tag = "Renamed"}

\* the entries of the list before the rename pass that have the given path
Before(path) == {j \in 1..Len(diffs) : diffs[j].path = path}

\* C5: in every result, no entry is Deleted with the path that is the old_path
\* of a Renamed entry
C5_NoDeletedForOldPath ==
    HasResult =>
        \A i \in RenamedEntries : \A j \in 1..Len(file_diffs) :
            file_diffs[j].status = Deleted => file_diffs[j].path # file_diffs[i].status.old_path

\* a rename took one of two Deleted entries out of the list and left the other
C5_Witness ==
    /\ pc = "done"
    /\ RenamedEntries # {}
    /\ \E j \in 1..Len(file_diffs) : file_diffs[j].status = Deleted
    /\ \A i \in RenamedEntries :
          \E j \in Before(file_diffs[i].status.old_path) : diffs[j].status = Deleted

\* C6: a result has a Renamed entry only when detect_renames is set, only on a
\* path whose entry was Added before the pass, and an entry that was Modified or
\* Unchanged before the pass keeps its status
C6_RenamedOnlyFromAdded ==
    HasResult =>
        /\ \A i \in RenamedEntries :
              /\ request.config.detect_renames
              /\ \E j \in Before(file_diffs[i].path) : diffs[j].status = Added
        /\ \A j \in 1..Len(diffs) :
              diffs[j].status \in {Modified, Unchanged} =>
                  \E i \in 1..Len(file_diffs) :
                      /\ file_diffs[i].path = diffs[j].path
                      /\ file_diffs[i].status = diffs[j].status

\* the pass renamed one Added entry and left another Added entry, with lines of
\* its own, as it was
C6_Witness ==
    /\ pc = "done"
    /\ request.config.detect_renames
    /\ \E i \in RenamedEntries : \E j \in Before(file_diffs[i].path) : diffs[j].status = Added
    /\ \E i \in 1..Len(file_diffs) :
          file_diffs[i].status = Added /\ file_diffs[i].lines # <<>>

\* the sizes differ by more than 20% of the larger of the two
SizesFarApart(size_a, size_b) ==
    LET larger == IF size_a >= size_b THEN size_a ELSE size_b
        gap == IF size_a >= size_b THEN size_a - size_b ELSE size_b - size_a
    IN  5 * gap > larger

\* C7: the rename pass never matches an Added and a Deleted entry whose file
\* sizes differ by more than 20% of the larger size
C7_SizePreFilter ==
    (HasResult /\ request.kind = "dirs") =>
        \A i \in RenamedEntries :
            \A a \in Before(file_diffs[i].path), d \in Before(file_diffs[i].status.old_path) :
                ~SizesFarApart(diffs[a].right_stats.size, diffs[d].left_stats.size)

(***************************************************************************)
(* Properties of the similarity (SpecSim).                                 *)
(***************************************************************************)
Compared == pc = "done" /\ request.kind = "similarity"

\* the lines of a file and the set of their trimmed contents
FileLines(file) == Lines(read_text_file(file).text)
TrimmedContents(file) == {Trim(FileLines(file)[i]) : i \in 1..Len(FileLines(file))}

\* the file is a text none of whose lines starts with the binary marker
PlainText(file) ==
    /\ is_binary_file(RelativePath("f", "txt"), file) = "false"
    /\ \A i \in 1..Len(FileLines(file)) : ~StartsWithBinaryMarker(FileLines(file)[i])

\* intersection size over union size
Jaccard(set_a, set_b) == <<Cardinality(set_a \cap set_b), Cardinality(set_a \cup set_b)>>

\* C8: the similarity of A and B equals the similarity of B and A, for empty
\* sequences and sequences with binary markers too
C8_Symmetric ==
    Compared => FracEq(similarity[1], similarity[2])

\* two texts share one of two trimmed lines, and the two sets differ in size
C8_Witness ==
    /\ Compared
    /\ similarity[1] = <<1, 2>>
    /\ Cardinality(TrimmedContents(request.file_a)) # Cardinality(TrimmedContents(request.file_b))

\* C9 as stated: disjoint sets of trimmed lines give similarity 0, and identical
\* non-empty content gives similarity 1
C9_DisjointZeroIdenticalOne ==
    Compared =>
        /\ TrimmedContents(request.file_a) \cap TrimmedContents(request.file_b) = {}
              => FracEq(similarity[1], <<0, 1>>)
        /\ (request.file_a = request.file_b /\ request.file_a.bytes # <<>>)
              => FracEq(similarity[1], <<1, 1>>)

\* C9, amended: disjoint sets of trimmed lines give similarity 0, and identical
\* non-empty content gives similarity 1 when it is text none of whose lines
\* starts with the binary marker
C9_DisjointZeroIdenticalTextOne ==
    Compared =>
        /\ TrimmedContents(request.file_a) \cap TrimmedContents(request.file_b) = {}
              => FracEq(similarity[1], <<0, 1>>)
        /\ (/\ request.file_a = request.file_b
            /\ request.file_a.bytes # <<>>
            /\ PlainText(request.file_a))
              => FracEq(similarity[1], <<1, 1>>)

\* a text of two different lines was compared with itself
C9_Witness ==
    /\ Compared
    /\ request.file_a = request.file_b
    /\ PlainText(request.file_a)
    /\ similarity[1] = <<2, 2>>

\* C10 as stated: the similarity is the Jaccard index of the two sets of trimmed
\* lines, and 1 when both sets are empty
C10_JaccardOneWhenEmpty ==
    Compared =>
        LET set_a == TrimmedContents(request.file_a)
            set_b == TrimmedContents(request.file_b)
        IN  IF set_a = {} /\ set_b = {}
            THEN FracEq(similarity[1], <<1, 1>>)
            ELSE FracEq(similarity[1], Jaccard(set_a, set_b))

\* C10, amended: the similarity is the Jaccard index of the two sets of trimmed
\* lines when both files are texts with a line and without a line that starts
\* with the binary marker, and 0 otherwise, when both sets are empty too
C10_JaccardOfPlainTexts ==
    Compared =>
        LET set_a == TrimmedContents(request.file_a)
            set_b == TrimmedContents(request.file_b)
        IN  IF /\ PlainText(request.file_a) /\ PlainText(request.file_b)
               /\ set_a # {} /\ set_b # {}
            THEN FracEq(similarity[1], Jaccard(set_a, set_b))
            ELSE FracEq(similarity[1], <<0, 1>>)

\* two texts whose lines differ until they are trimmed share one of two lines
C10_Witness ==
    /\ Compared
    /\ PlainText(request.file_a) /\ PlainText(request.file_b)
    /\ similarity[1] = <<1, 2>>
    /\ \E i \in 1..Len(FileLines(request.file_a)) :
          /\ FileLines(request.file_a)[i] # Trim(FileLines(request.file_a)[i])
          /\ Trim(FileLines(request.file_a)[i]) \in TrimmedContents(request.file_b)

(***************************************************************************)
(* Properties of the errors of compare (Spec).                             *)
(***************************************************************************)
\* the request cannot be served: two sources that are not both files and not
\* both directories, or a repository comparison without git_params
Unservable ==
    \/ request.kind = "sources"
    \/ request.kind = "git" /\ ~request.has_params

\* C11: compare on sources of incompatible kinds, or on a repository without
\* git_params, fails: no result is returned and no per-file work was started
C11_RejectedBeforeWork ==
    Unservable =>
        /\ pc = "failed"
        /\ all_paths = <<>> /\ results = <<>>
        /\ diffs = <<>> /\ file_diffs = <<>>
        /\ summary = NoSummary

\* compare has failed on a file against a directory
C11_Witness ==
    /\ pc = "failed"
    /\ request.kind = "sources"
    /\ request.kind_a = "file" /\ request.kind_b = "dir"

(***************************************************************************)
(* Properties of the per-file tasks of a directory comparison (Spec).      *)
(***************************************************************************)
\* the tasks of a directory comparison have joined
DirsJoined == request.kind = "dirs" /\ pc \in {"joined", "renamed", "done"}

\* the relative paths of the two trees
UnionOfTrees == DOMAIN request.files_a_set \cup DOMAIN request.files_b_set

\* the path under the compared root that a path names
RelativeOf(path) == RelativePath(path.stem, path.ext)

OnlyLinesOf(lines, diff_type) == \A k \in 1..Len(lines) : lines[k].diff_type = diff_type

\* the entry is what the claim expects for the relative path: Deleted with
\* Delete lines, Added with Insert lines, or a compared entry
ClassifiedAs(relative_path, diff) ==
    LET in_a == relative_path \in DOMAIN request.files_a_set
        in_b == relative_path \in DOMAIN request.files_b_set
    IN  /\ RelativeOf(diff.path) = relative_path
        /\ (in_a /\ ~in_b) => diff.status = Deleted /\ OnlyLinesOf(diff.lines, "Delete")
        /\ (in_b /\ ~in_a) => diff.status = Added /\ OnlyLinesOf(diff.lines, "Insert")
        /\ (in_a /\ in_b) => diff.status \in {Modified, Unchanged}

\* C12: before the rename pass every relative path of the union of the trees has
\* at most one FileDiff, Deleted with Delete lines for a path only on the left,
\* Added with Insert lines for a path only on the right, Modified or Unchanged
\* for a path on both sides, and no FileDiff is of a path outside the union
C12_OneEntryPerPath ==
    DirsJoined =>
        /\ {all_paths[i] : i \in 1..Len(all_paths)} = UnionOfTrees
        /\ Len(all_paths) = Cardinality(UnionOfTrees)
        /\ Len(diffs) = Cardinality({i \in 1..Len(results) : results[i].ok})
        /\ \A j \in 1..Len(diffs) :
              /\ RelativeOf(diffs[j].path) \in UnionOfTrees
              /\ \E i \in 1..Len(results) :
                    /\ results[i].ok /\ results[i].diff = diffs[j]
                    /\ ClassifiedAs(all_paths[i], diffs[j])
              /\ \A k \in 1..Len(diffs) :
                    k # j => RelativeOf(diffs[k].path) # RelativeOf(diffs[j].path)

\* a tree pair with a path only on the right and a path on both sides, both with
\* lines, has been compared
C12_Witness ==
    /\ DirsJoined
    /\ \E j \in 1..Len(diffs) : diffs[j].status = Added /\ diffs[j].lines # <<>>
    /\ \E j \in 1..Len(diffs) : diffs[j].status = Modified /\ diffs[j].lines # <<>>

\* every per-file task of a directory or repository comparison has returned,
\* and the results have been collected
TasksCollected ==
    /\ request.kind \in {"dirs", "git"}
    /\ Len(results) > 0
    /\ \A i \in 1..Len(results) : results[i] # Pending
    /\ pc \in {"joined", "renamed", "done", "failed"}

\* C13: in directory mode and in repository mode the failure of a per-file task
\* never makes compare fail, and the FileDiff of every other file is returned
C13_TaskFailuresIsolated ==
    TasksCollected =>
        /\ pc # "failed"
        /\ \A i \in 1..Len(results) :
              results[i].ok => \E j \in 1..Len(diffs) : diffs[j] = results[i].diff

\* a directory comparison in which the task of one file failed has returned the
\* entry of the other file
C13_DirsWitness ==
    /\ pc = "done"
    /\ request.kind = "dirs"
    /\ \E i \in 1..Len(results) : ~results[i].ok
    /\ \E i \in 1..Len(results) : results[i].ok /\ results[i].diff.lines # <<>>
    /\ Len(file_diffs) > 0

\* C13, for directory mode alone: the failure of a per-file task never makes
\* compare fail, and the FileDiff of every other file is returned
C13_DirsTaskFailuresIsolated ==
    (TasksCollected /\ request.kind = "dirs") =>
        /\ pc # "failed"
        /\ \A i \in 1..Len(results) :
              results[i].ok => \E j \in 1..Len(diffs) : diffs[j] = results[i].diff

(***************************************************************************)
(* Properties of the read errors of a file pair (SpecPair).                *)
(***************************************************************************)
\* neither file of the pair is taken as binary, and the text of one of them
\* cannot be read: it cannot be opened, or it is larger than the ceiling
TextReadFails ==
    /\ request.kind = "files"
    /\ is_binary_file(request.path_a, request.file_a) # "true"
    /\ is_binary_file(request.path_b, request.file_b) # "true"
    /\ ~read_text_file(request.file_a).ok \/ ~read_text_file(request.file_b).ok

\* C14: when the text of either side of a pair cannot be read, the comparison is
\* not aborted and the pair is one FileDiff with status Modified, exactly one
\* line, and left and right stats of size 0 and line_count 0
C14_ReadFailureDiagnostic ==
    TextReadFails =>
        /\ pc = "done"
        /\ Len(file_diffs) = 1
        /\ file_diffs[1].status = Modified
        /\ Len(file_diffs[1].lines) = 1
        /\ file_diffs[1].left_stats = FileStats(0, 0)
        /\ file_diffs[1].right_stats = FileStats(0, 0)

(***************************************************************************)
(* Properties of the summary (Spec).                                       *)
(***************************************************************************)
\* the entries of the result with the given status tag
EntriesWith(tag) == {i \in 1..Len(file_diffs) : file_diffs[i].status.tag = tag}

\* the lines of the result, as pairs of entry and line index, that satisfy Test
LinesWhere(Test(_)) ==
    {<<i, k>> \in (1..Len(file_diffs)) \X (1..(MaxLen + MaxBinLen + 2)) :
        k <= Len(file_diffs[i].lines) /\ Test(file_diffs[i].lines[k])}

IsInsert(line) == line.diff_type = "Insert"
IsDelete(line) == line.diff_type = "Delete"
IsNotEqual(line) == line.diff_type # "Equal"

\* no entry has more lines than LinesWhere looks at
LinesInReach == \A i \in 1..Len(file_diffs) : Len(file_diffs[i].lines) <= MaxLen + MaxBinLen + 2

\* C15: the summary of a result counts the entries of its final file_diffs by status,
\* Added, Deleted, Modified and Renamed, none for Unchanged, and the Insert and the
\* Delete lines, which together are the lines that are not Equal
C15_SummaryOfFinalDiffs ==
    pc = "done" =>
        /\ LinesInReach
        /\ summary.files_added = Cardinality(EntriesWith("Added"))
        /\ summary.files_deleted = Cardinality(EntriesWith("Deleted"))
        /\ summary.files_modified = Cardinality(EntriesWith("Modified"))
        /\ summary.files_renamed = Cardinality(EntriesWith("Renamed"))
        /\ summary.lines_added = Cardinality(LinesWhere(IsInsert))
        /\ summary.lines_deleted = Cardinality(LinesWhere(IsDelete))
        /\ summary.lines_added + summary.lines_deleted = Cardinality(LinesWhere(IsNotEqual))

\* a result with an Unchanged entry of Equal lines, an Added entry and lines
\* counted as added has been summarised
C15_Witness ==
    /\ pc = "done"
    /\ \E i \in EntriesWith("Unchanged") : file_diffs[i].lines # <<>>
    /\ summary.files_added = 1
    /\ summary.lines_added >= 1

(***************************************************************************)
(* Properties of the order of the tasks and the passes (Spec).             *)
(***************************************************************************)
TaskRunning == \E i \in 1..Len(results) : results[i] = Pending

\* the results that are Ok, in the order of all_paths
KeptResults ==
    LET kept == SelectSeq2(results, [i \in 1..Len(results) |-> results[i].ok])
    IN  [i \in 1..Len(kept) |-> kept[i].diff]

\* one step of compare keeps the order of the passes
PassesInOrder ==
    \* a pass starts only when no task is running
    /\ pc' \in {"joined", "renamed", "done"} => ~TaskRunning
    \* while a task is running the finished results, the lists and the summary stay
    /\ TaskRunning =>
          /\ diffs' = diffs /\ file_diffs' = file_diffs /\ summary' = summary
          /\ \A i \in 1..Len(results) : results[i] # Pending => results'[i] = results[i]
    \* the summary pass starts only when the rename pass has finished
    /\ summary' # summary => pc = "renamed"
    /\ file_diffs' # file_diffs => pc \in {"joined", "tasks"} /\ pc' = "renamed"
    \* the result of a task is one of its own path, whenever it finishes, and the
    \* list keeps the order of all_paths, not the order of completion
    /\ request.kind = "dirs" =>
          /\ \A i \in 1..Len(results) :
                results[i] # Pending => results[i] \in TaskResults(all_paths[i])
          /\ pc \in {"joined", "renamed", "done"} => diffs = KeptResults

\* C16: the rename pass and the summary pass start only after every per-file task
\* has finished, the summary pass only after the rename pass, no FileDiff changes
\* while a task is running, and the result does not depend on the order in
\* which the tasks finish
C16_JoinBeforePasses == [][PassesInOrder]_vars

\* the second task has finished before the first, and nothing has been collected
C16_Witness ==
    /\ pc = "tasks"
    /\ Len(results) >= 2
    /\ results[1] = Pending
    /\ results[2] # Pending
    /\ diffs = <<>> /\ file_diffs = <<>>

(***************************************************************************)
(* Properties of the line numbers (SpecPair).                              *)
(***************************************************************************)
\* the numbers that are set, in output order, on the left and on the right
LeftNumbers(lines) ==
    LET kept == SelectSeq2(lines, [k \in 1..Len(lines) |-> lines[k].left_line_number # None])
    IN  [k \in 1..Len(kept) |-> kept[k].left_line_number]
RightNumbers(lines) ==
    LET kept == SelectSeq2(lines, [k \in 1..Len(lines) |-> lines[k].right_line_number # None])
    IN  [k \in 1..Len(kept) |-> kept[k].right_line_number]

\* the numbers start at 1 and each is larger than the one before it
StartsAtOneIncreasing(numbers) ==
    /\ numbers # <<>> => numbers[1] = 1
    /\ \A k \in 1..(Len(numbers) - 1) : numbers[k] < numbers[k + 1]

\* C17: in every FileDiff every DiffLine has a left or a right line number, the
\* numbers start at 1, and along the lines the left numbers that are set
\* increase strictly, and so do the right numbers
C17_LineNumbers ==
    pc = "done" =>
        \A i \in 1..Len(file_diffs) :
            LET lines == file_diffs[i].lines
            IN  /\ \A k \in 1..Len(lines) :
                      lines[k].left_line_number # None \/ lines[k].right_line_number # None
                /\ StartsAtOneIncreasing(LeftNumbers(lines))
                /\ StartsAtOneIncreasing(RightNumbers(lines))

\* a text diff with lines of all three types, numbered on both sides
C17_Witness ==
    /\ pc = "done"
    /\ IsTextPair
    /\ CountType(file_diffs[1].lines, "Equal") >= 1
    /\ CountType(file_diffs[1].lines, "Delete") >= 1
    /\ CountType(file_diffs[1].lines, "Insert") >= 1
    /\ Len(LeftNumbers(file_diffs[1].lines)) >= 2

(***************************************************************************)
(* Properties of the size of the line diff (SpecPair).                     *)
(***************************************************************************)
\* C18: the line diff is a minimal edit script over lines: its Insert and Delete
\* lines are as many as the left lines plus the right lines less twice the
\* length of a longest common subsequence of the two line sequences
C18_MinimalEditScript ==
    IsLineDiff =>
        LET lines == file_diffs[1].lines
        IN  CountType(lines, "Insert") + CountType(lines, "Delete")
              = Len(LeftLines) + Len(RightLines) - 2 * LcsLength(LeftLines, RightLines)

(***************************************************************************)
(* C19: a rename between the two refs in the repository comparison.        *)
(***************************************************************************)
\* the renames among the changes of the repository request
RenamesOfRequest ==
    IF request.kind = "git"
    THEN {request.changes[i] : i \in {j \in 1..Len(request.changes) :
                                         request.changes[j].letter = "R"}}
    ELSE {}

\* C19: when git lists a path as renamed between the two refs (status letter
\* with a similarity score, old path, new path), the finished repository
\* comparison reports the new path with status Renamed carrying the old path.
C19_RenamedWithOldPath ==
    (pc = "done" /\ request.kind = "git") =>
        \A change \in RenamesOfRequest :
            \E i \in 1..Len(file_diffs) :
                /\ file_diffs[i].path = GitPath(change.path)
                /\ file_diffs[i].status = Renamed(GitPath(change.old))

(***************************************************************************)
(* C20: a left file of ten zero bytes against an empty right file, in two  *)
(* compared trees.                                                         *)
(***************************************************************************)
\* the left tree holds the file of ten zero bytes at the path, the right tree
\* the empty file
ZeroLeft(relative_path) ==
    /\ request.kind = "dirs"
    /\ relative_path \in DOMAIN request.files_a_set
    /\ request.files_a_set[relative_path] = ZeroBytes(10)
EmptyRight(relative_path) ==
    /\ request.kind = "dirs"
    /\ relative_path \in DOMAIN request.files_b_set
    /\ request.files_b_set[relative_path] = PlainFile(<<>>)

\* the two files at one relative path, and at two paths each in one tree only
SamePath(relative_path) == ZeroLeft(relative_path) /\ EmptyRight(relative_path)
DifferentPaths(left_path, right_path) ==
    /\ ZeroLeft(left_path) /\ EmptyRight(right_path)
    /\ left_path \notin DOMAIN request.files_b_set
    /\ right_path \notin DOMAIN request.files_a_set

\* what is_binary_file answers for the file of a tree
ClassifiedLeft(relative_path) ==
    is_binary_file(JoinPath(request.source_a, relative_path),
                   request.files_a_set[relative_path])
ClassifiedRight(relative_path) ==
    is_binary_file(JoinPath(request.source_b, relative_path),
                   request.files_b_set[relative_path])

\* the entries of the final result, and of the result before the rename pass,
\* for a relative path
FinalEntriesOf(relative_path) ==
    {file_diffs[i] : i \in {j \in 1..Len(file_diffs) :
                               RelativeOf(file_diffs[j].path) = relative_path}}
JoinedEntriesOf(relative_path) ==
    {diffs[i] : i \in {j \in 1..Len(diffs) : RelativeOf(diffs[j].path) = relative_path}}

\* Modified with two synthetic lines, a Delete then an Insert
TwoSyntheticLines(diff) ==
    /\ diff.status = Modified
    /\ Len(diff.lines) = 2
    /\ diff.lines[1].diff_type = "Delete"
    /\ diff.lines[2].diff_type = "Insert"

DirsDone == request.kind = "dirs" /\ pc = "done"

\* C20 as the spec states it: both files are classified binary; at the same
\* relative path the pair is Modified with two synthetic lines, at different
\* relative paths it is one Deleted and one Added entry that the rename pass
\* leaves unmatched.
C20_BothBinary ==
    DirsDone =>
        \A left_path \in DirNames, right_path \in DirNames :
            /\ SamePath(left_path) =>
                  /\ ClassifiedLeft(left_path) = "true"
                  /\ ClassifiedRight(left_path) = "true"
                  /\ \E diff \in FinalEntriesOf(left_path) : TwoSyntheticLines(diff)
            /\ DifferentPaths(left_path, right_path) =>
                  /\ ClassifiedLeft(left_path) = "true"
                  /\ ClassifiedRight(right_path) = "true"
                  /\ \E diff \in FinalEntriesOf(left_path) : diff.status = Deleted
                  /\ \E diff \in FinalEntriesOf(right_path) : diff.status = Added

\* C20, amended: the left file is classified binary and the empty right file
\* text.  At the same relative path the pair is Modified with two synthetic
\* lines, the Delete of a binary file and the Insert of a text file.  At
\* different relative paths the left file is a Deleted entry with one synthetic
\* line and the right file an Added entry without lines; the rename pass leaves
\* the Added entry as it is, and removes the Deleted entry only when it matches
\* it with a third path.
C20_BinaryAgainstEmptyText ==
    DirsDone =>
        \A left_path \in DirNames, right_path \in DirNames :
            /\ SamePath(left_path) =>
                  /\ ClassifiedLeft(left_path) = "true"
                  /\ ClassifiedRight(left_path) = "false"
                  /\ Cardinality(FinalEntriesOf(left_path)) = 1
                  /\ \A diff \in FinalEntriesOf(left_path) :
                        /\ TwoSyntheticLines(diff)
                        /\ diff.lines[1].content[1] = BinaryMarker
                        /\ diff.lines[2].content[1] = TextMarker
            /\ DifferentPaths(left_path, right_path) =>
                  /\ ClassifiedLeft(left_path) = "true"
                  /\ ClassifiedRight(right_path) = "false"
                  /\ \A diff \in JoinedEntriesOf(left_path) :
                        /\ diff.status = Deleted
                        /\ Len(diff.lines) = 1
                        /\ diff.lines[1].content[1] = BinaryMarker
                  /\ Cardinality(JoinedEntriesOf(left_path)) = 1
                  /\ Cardinality(FinalEntriesOf(right_path)) = 1
                  /\ \A diff \in FinalEntriesOf(right_path) :
                        diff.status = Added /\ diff.lines = <<>>
                  /\ \/ FinalEntriesOf(left_path) = JoinedEntriesOf(left_path)
                     \/ /\ FinalEntriesOf(left_path) = {}
                        /\ \E i \in 1..Len(file_diffs) :
                              /\ RelativeOf(file_diffs[i].path) \notin {left_path, right_path}
                              /\ file_diffs[i].status = Renamed(left_path)

\* the two files at different relative paths have been compared with the rename
\* pass switched on, and both entries are in the result
C20_Witness ==
    /\ DirsDone
    /\ request.config.detect_renames
    /\ \E left_path \in DirNames, right_path \in DirNames :
          /\ DifferentPaths(left_path, right_path)
          /\ FinalEntriesOf(left_path) # {}
          /\ FinalEntriesOf(right_path) # {}

\* the two files at the same relative path have been compared
C20_SamePathWitness ==
    DirsDone /\ \E relative_path \in DirNames : SamePath(relative_path)

\* the Deleted entry of the zero-byte file has been matched with a third path
C20_ThirdPathWitness ==
    /\ DirsDone
    /\ \E left_path \in DirNames, right_path \in DirNames :
          DifferentPaths(left_path, right_path) /\ FinalEntriesOf(left_path) = {}

(***************************************************************************)
(* C21: the paths of the entries of a directory comparison.                *)
(***************************************************************************)
\* C21: in the result of a directory comparison the path of every entry, of
\* whatever status, is a path relative to the compared root, one of the keys
\* by which the two trees are paired.
C21_PathsRelative ==
    DirsDone =>
        \A i \in 1..Len(file_diffs) :
            file_diffs[i].path \in UnionOfTrees

(***************************************************************************)
(* C22: the rename pass takes the first Deleted entry at the threshold.    *)
(***************************************************************************)
\* the rename pass of a directory comparison has run
RenamePassRan ==
    /\ request.kind = "dirs"
    /\ pc \in {"renamed", "done"}
    /\ request.config.detect_renames

\* the indices, in the list before the pass, of the Deleted entries whose
\* similarity with the entry at index i reaches the threshold
AtThreshold(i) ==
    {k \in 1..Len(diffs) :
        /\ diffs[k].status = Deleted
        /\ FracGeq(calculate_similarity(diffs[k].lines, diffs[i].lines),
                   request.config.rename_similarity_threshold)}

\* the first index of a set of indices
FirstOf(indices) == CHOOSE k \in indices : \A m \in indices : k <= m

\* the status after the pass of the entry that was at index i before it
StatusAfter(i, status) ==
    \E j \in 1..Len(file_diffs) :
        file_diffs[j].path = diffs[i].path /\ file_diffs[j].status = status

\* C22 as the spec states it: for each Added entry the first Deleted entry, in
\* result order, whose similarity is at or above the threshold is recorded,
\* whatever the similarity of the later ones; an Added entry without such a
\* Deleted entry stays Added.
C22_FirstMatchOfEveryAdded ==
    RenamePassRan =>
        \A i \in 1..Len(diffs) :
            diffs[i].status = Added =>
                IF AtThreshold(i) = {} THEN StatusAfter(i, Added)
                ELSE StatusAfter(i, Renamed(diffs[FirstOf(AtThreshold(i))].path))

\* C22, amended: the scan is made for each Added entry that has at least one
\* line; an Added entry without lines stays Added even when the threshold is 0.
C22_FirstMatchOfAddedWithLines ==
    RenamePassRan =>
        \A i \in 1..Len(diffs) :
            diffs[i].status = Added =>
                IF diffs[i].lines = <<>> \/ AtThreshold(i) = {} THEN StatusAfter(i, Added)
                ELSE StatusAfter(i, Renamed(diffs[FirstOf(AtThreshold(i))].path))

\* an Added entry was renamed from the first of two Deleted entries at the
\* threshold, the second of which is the more similar
C22_Witness ==
    /\ RenamePassRan
    /\ \E i \in 1..Len(diffs) :
          /\ diffs[i].status = Added
          /\ \E k, m \in AtThreshold(i) :
                /\ k < m
                /\ k = FirstOf(AtThreshold(i))
                /\ ~FracGeq(calculate_similarity(diffs[k].lines, diffs[i].lines),
                            calculate_similarity(diffs[m].lines, diffs[i].lines))
                /\ StatusAfter(i, Renamed(diffs[k].path))

\* an Added entry with lines and Deleted entries, none at the threshold, stayed
\* Added
C22_StaysAddedWitness ==
    /\ RenamePassRan
    /\ \E i \in 1..Len(diffs) :
          /\ diffs[i].status = Added /\ diffs[i].lines # <<>>
          /\ AtThreshold(i) = {}
          /\ \E k \in 1..Len(diffs) : diffs[k].status = Deleted /\ diffs[k].lines # <<>>
          /\ StatusAfter(i, Added)

(***************************************************************************)
(* C23: two runs of compare on the same trees with the same configuration. *)
(* The rename mappings depend on the Added and Deleted entries alone, and  *)
(* those on the files of the two trees alone; what another run can differ  *)
(* in is the order in which the HashSet yields the relative paths.         *)
(***************************************************************************)
\* the Added and Deleted entries a run makes when its HashSet yields the
\* relative paths in the order given
OneSidedEntries(order) ==
    LET entry(relative_path) ==
            IF relative_path \in DOMAIN request.files_a_set
            THEN create_deleted_file_diff(relative_path, request.files_a_set[relative_path])
            ELSE create_added_file_diff(relative_path, request.files_b_set[relative_path])
        kept == SelectSeq2(order, [i \in 1..Len(order) |->
                    /\ ~(order[i] \in DOMAIN request.files_a_set
                         /\ order[i] \in DOMAIN request.files_b_set)
                    /\ entry(order[i]).ok])
    IN  [i \in 1..Len(kept) |-> entry(kept[i]).diff]

\* the rename mappings of a result: the pairs of new path and old path
MappingsOf(entries) ==
    {<<entries[i].path, entries[i].status.old_path>> :
        i \in {j \in 1..Len(entries) : entries[j].status.tag = "Renamed"}}

\* C23: the rename mappings of a run are those of every other run on the same
\* two trees with the same configuration, in whatever order that run meets the
\* relative paths.
C23_SameMappingsInEveryRun ==
    RenamePassRan =>
        \A order \in Orders(UnionOfTrees) :
            MappingsOf(detect_renames(OneSidedEntries(order),
                                      request.config.rename_similarity_threshold))
                = MappingsOf(file_diffs)

\* the run at hand is one of the runs C23 speaks about
C23_ThisRunAmongTheRuns ==
    RenamePassRan =>
        MappingsOf(detect_renames(OneSidedEntries(all_paths),
                                  request.config.rename_similarity_threshold))
            = MappingsOf(file_diffs)

(***************************************************************************)
(* C24: what applying the rename mappings changes.                         *)
(***************************************************************************)
\* the entry at index k before the pass is a Deleted entry that the pass
\* matched: a Renamed entry of the result carries its path
MatchedDeleted(k) ==
    /\ diffs[k].status = Deleted
    /\ \E i \in RenamedEntries : file_diffs[i].status.old_path = diffs[k].path

\* the list before the pass without the matched Deleted entries, in order
WithoutMatchedDeleted ==
    SelectSeq2(diffs, [k \in 1..Len(diffs) |-> ~MatchedDeleted(k)])

\* C24: the result of the pass is the list before it without the matched
\* Deleted entries, in the same order, where a matched Added entry differs in
\* its status alone, Renamed with the path of a matched Deleted entry, and
\* every other entry is as it was.
C24_OnlyStatusAndRemoval ==
    RenamePassRan =>
        /\ Len(file_diffs) = Len(WithoutMatchedDeleted)
        /\ \A j \in 1..Len(file_diffs) :
              \/ file_diffs[j] = WithoutMatchedDeleted[j]
              \/ /\ WithoutMatchedDeleted[j].status = Added
                 /\ file_diffs[j].status.tag = "Renamed"
                 /\ file_diffs[j] =
                        [WithoutMatchedDeleted[j] EXCEPT !.status = file_diffs[j].status]
                 /\ \E k \in 1..Len(diffs) :
                       MatchedDeleted(k) /\ diffs[k].path = file_diffs[j].status.old_path

\* the pass renamed an Added entry from a Deleted entry with lines, took that
\* Deleted entry out and left a later Deleted entry where it was
C24_Witness ==
    /\ RenamePassRan
    /\ Len(diffs) = 3
    /\ diffs[1].status = Deleted /\ diffs[1].lines # <<>>
    /\ diffs[2].status = Added
    /\ diffs[3].status = Deleted
    /\ Len(file_diffs) = 2
    /\ file_diffs[1].status = Renamed(diffs[1].path)
    /\ file_diffs[2] = diffs[3]

(***************************************************************************)
(* C25: the classification of a file as binary or text (SpecBin).          *)
(***************************************************************************)
Classified == request.kind = "classify" /\ pc = "done"

\* the extension of the path is, in lower case, one of the denylist
ExtensionDenied == ToLowercase(request.path.ext) \in binary_extensions

\* the first 1024 bytes of the file
FirstBytes ==
    [i \in 1..(IF Len(request.file.bytes) < 1024 THEN Len(request.file.bytes) ELSE 1024)
        |-> request.file.bytes[i]]

HasNulByte == \E i \in 1..Len(FirstBytes) : FirstBytes[i] = NUL
NotUtf8 == ~ValidUtf8(FirstBytes)

\* C25: is_binary_file answers true exactly when the extension is in the
\* denylist, whatever its case, or the first 1024 bytes hold a NUL byte or are
\* not valid UTF-8; the extension decides before the file is opened, so that a
\* file that cannot be opened is classified by a denylisted extension and is an
\* error without one; an empty file is text.
C25_BinaryExactlyWhen ==
    Classified =>
        /\ ExtensionDenied => results[1] = "true"
        /\ (~ExtensionDenied /\ ~request.file.readable) => results[1] = "error"
        /\ (~ExtensionDenied /\ request.file.readable) =>
              /\ results[1] \in {"true", "false"}
              /\ results[1] = "true" <=> (HasNulByte \/ NotUtf8)
              /\ request.file.bytes = <<>> => results[1] = "false"

\* a file whose only NUL byte is the first byte beyond the first 1024, with an
\* extension outside the denylist, has been classified
C25_Witness ==
    /\ Classified
    /\ ~ExtensionDenied
    /\ request.file.readable
    /\ Len(request.file.bytes) = 1025
    /\ request.file.bytes[1025] = NUL
    /\ results[1] = "false"

\* a file that cannot be opened has been classified by its extension, which is
\* in the denylist in upper case
C25_ExtensionWitness ==
    /\ Classified
    /\ request.path.ext = "PNG"
    /\ ~request.file.readable
    /\ results[1] = "true"

(***************************************************************************)
(* C26: the comparison of a pair with a binary side (SpecPair).            *)
(***************************************************************************)
\* compare on two files has returned a result
PairCompared == request.kind = "files" /\ pc = "done"

LeftIsBinary == is_binary_file(request.path_a, request.file_a) = "true"
RightIsBinary == is_binary_file(request.path_b, request.file_b) = "true"

HashesEqual == calculate_file_hash(request.file_a) = calculate_file_hash(request.file_b)

\* C26: in the result of a pair with a binary side: when both sides are binary
\* the entry is Unchanged without lines if the two content hashes are equal and
\* Modified with exactly two synthetic lines, a Delete then an Insert, if they
\* are not; when one side alone is binary the entry is Modified with two such
\* lines, whatever the two contents.
C26_BinaryPair ==
    (PairCompared /\ (LeftIsBinary \/ RightIsBinary)) =>
        LET diff == file_diffs[1]
        IN  /\ (LeftIsBinary /\ RightIsBinary) =>
                  /\ (diff.status = Unchanged /\ diff.lines = <<>>) <=> HashesEqual
                  /\ ~HashesEqual => TwoSyntheticLines(diff)
            /\ ~(LeftIsBinary /\ RightIsBinary) => TwoSyntheticLines(diff)

\* a binary and a text file of the same content, not empty, have been compared
C26_Witness ==
    /\ PairCompared
    /\ LeftIsBinary /\ ~RightIsBinary
    /\ request.file_a = request.file_b
    /\ request.file_a.bytes # <<>>
    /\ TwoSyntheticLines(file_diffs[1])

\* two binary files of the same content, and two of different contents, have
\* been compared
C26_SameHashWitness ==
    /\ PairCompared /\ LeftIsBinary /\ RightIsBinary /\ HashesEqual
    /\ request.file_a.bytes # <<>>
    /\ file_diffs[1].status = Unchanged
C26_OtherHashWitness ==
    /\ PairCompared /\ LeftIsBinary /\ RightIsBinary /\ ~HashesEqual
    /\ TwoSyntheticLines(file_diffs[1])

(***************************************************************************)
(* C27: the changed-file list of a repository comparison.                  *)
(***************************************************************************)
\* the changed-file query of a repository comparison has been answered and
\* its list made
ChangedFilesListed == request.kind = "git" /\ pc = "tasks"

\* the path names git's answer speaks of, and a name that is two of them with a
\* tab in between
NamesOfChanges ==
    ({request.changes[i].path : i \in 1..Len(request.changes)}
        \cup {request.changes[i].old : i \in 1..Len(request.changes)}) \ {NoName}
HoldsTab(name) ==
    \E old \in NamesOfChanges, new \in NamesOfChanges : name = JoinTab(<<old, new>>)

\* C27: the changed-file list holds, line by line of git's answer, the new path
\* of a rename line (letter, similarity score, old path, new path) and the one
\* path of an A, D or M line; no entry of it holds a tab or an old path.
C27_NewPathPerLine ==
    ChangedFilesListed =>
        /\ Len(all_paths) = Len(request.changes)
        /\ \A i \in 1..Len(all_paths) :
              /\ all_paths[i] = GitPath(request.changes[i].path)
              /\ ~HoldsTab(all_paths[i].stem)
              /\ request.changes[i].letter = "R" =>
                    all_paths[i] # GitPath(request.changes[i].old)

(***************************************************************************)
(* C28: the comparison-fatal checks of a repository comparison.            *)
(***************************************************************************)
\* the repository path has no metadata directory, or the changed-file query
\* exits non-zero
FatalForRepository ==
    /\ request.kind = "git"
    /\ ~request.is_repository \/ ~request.diff_succeeds

\* C28: a repository comparison whose path is no repository or whose
\* changed-file query fails has failed as a whole, without any result, and no
\* per-file task of it exists, started or finished.
C28_FatalBeforeTasks ==
    FatalForRepository =>
        /\ pc = "failed"
        /\ all_paths = <<>> /\ results = <<>>
        /\ diffs = <<>> /\ file_diffs = <<>>
        /\ summary = NoSummary

\* the changed-file query of a repository with changes between the two refs has
\* exited non-zero, and the comparison has failed
C28_Witness ==
    /\ request.kind = "git"
    /\ request.has_params /\ request.is_repository /\ ~request.diff_succeeds
    /\ Len(request.changes) > 0
    /\ pc = "failed"

\* a path that is no repository has been compared
C28_NoRepositoryWitness ==
    /\ request.kind = "git"
    /\ request.has_params /\ ~request.is_repository
    /\ Len(request.changes) > 0
    /\ pc = "failed"

(***************************************************************************)
(* C29: a Deleted entry is matched to at most one Added entry.             *)
(***************************************************************************)
\* C29: after the rename pass no two Renamed entries carry the same old_path,
\* and the pass has removed as many entries as it has made Renamed.
C29_OneRenamePerDeleted ==
    RenamePassRan =>
        /\ \A i, j \in RenamedEntries :
              i # j => file_diffs[i].status.old_path # file_diffs[j].status.old_path
        /\ Len(diffs) - Len(file_diffs) = Cardinality(RenamedEntries)

(***************************************************************************)
(* C30: binary and empty files in the rename pass.                         *)
(***************************************************************************)
\* the entry is of a binary file (a line of it starts with the binary marker) or
\* has no lines
BinaryOrEmpty(diff) ==
    \/ diff.lines = <<>>
    \/ \E k \in 1..Len(diff.lines) : StartsWithBinaryMarker(diff.lines[k].content)

\* C30: whatever the threshold, 0 included, no Renamed entry of the result is a
\* binary or empty entry or carries the path of a binary or empty Deleted entry,
\* and every binary or empty Deleted entry is still in the result.
C30_NoRenameOfBinaryOrEmpty ==
    RenamePassRan =>
        /\ \A i \in RenamedEntries :
              /\ ~BinaryOrEmpty(file_diffs[i])
              /\ \A k \in 1..Len(diffs) :
                    (diffs[k].status = Deleted
                       /\ diffs[k].path = file_diffs[i].status.old_path)
                        => ~BinaryOrEmpty(diffs[k])
        /\ \A k \in 1..Len(diffs) :
              (diffs[k].status = Deleted /\ BinaryOrEmpty(diffs[k])) =>
                  \E j \in 1..Len(file_diffs) : file_diffs[j] = diffs[k]

\* C30 for the thresholds above 0: there the pass leaves binary and empty
\* entries alone
C30_AboveZero ==
    (RenamePassRan /\ request.config.rename_similarity_threshold # <<0, 1>>) =>
        /\ \A i \in RenamedEntries :
              /\ ~BinaryOrEmpty(file_diffs[i])
              /\ \A k \in 1..Len(diffs) :
                    (diffs[k].status = Deleted
                       /\ diffs[k].path = file_diffs[i].status.old_path)
                        => ~BinaryOrEmpty(diffs[k])
        /\ \A k \in 1..Len(diffs) :
              (diffs[k].status = Deleted /\ BinaryOrEmpty(diffs[k])) =>
                  \E j \in 1..Len(file_diffs) : file_diffs[j] = diffs[k]

====
